---- MODULE Spec2Model ----
(***************************************************************************)
(* A model of src/2048.py: the N-dimensional board (class Board), with its *)
(* constructor, place() and move(); the decision providers (the attacker   *)
(* and defender classes); one Round with its thread, its entry of          *)
(* Server.ONLINE_ROUNDS (the mailbox), the request handler of the web      *)
(* server, the thread that cleans the rounds, and the start requests with  *)
(* the number of the other entries of Server.ONLINE_ROUNDS; the requests   *)
(* that take the open role of a round and ask for an unoccupied game; and  *)
(* the display of a round while its thread moves the tiles.                *)
(*                                                                         *)
(* Python values are tagged records: an int n is [i |-> n], a list is      *)
(* [l |-> <<...>>], a bool is [b |-> ...], None is [n |-> "None"], a dict  *)
(* is [d |-> a function of its keys], anything else is [o |-> ...].        *)
(* Python's 0-based list indices become 1-based sequence indices.          *)
(***************************************************************************)
EXTENDS Integers, Sequences, FiniteSets, TLC

VARIABLES
    board_error,   \* "" when Board.__init__ returned, else the exception's text
    shape,         \* Board.__shape, a sequence of integers
    tiles,         \* Board.__tiles, a nested Python list of ints
    last,          \* the last call on the board, its arguments and its result
    ncalls,        \* how many place/move calls the board has served
    round,         \* the Round: its parameters, where Round.start stands, its result
    mailbox,       \* Server.ONLINE_ROUNDS[uuid] of the round
    request,       \* the request the web server is handling, and where it stands
    sweep,         \* where Server.__clean_online_rounds stands
    history,       \* what has happened in the round so far (read by properties only)
    registry       \* the other entries of Server.ONLINE_ROUNDS, and the answers of
                   \* the last start request and of the request for an unoccupied game

boardVars == <<board_error, shape, tiles, last, ncalls>>
roundVars == <<round, mailbox, request, sweep, history, registry>>
vars == <<board_error, shape, tiles, last, ncalls, round, mailbox, request, sweep,
         history, registry>>

----------------------------------------------------------------------------
(* Bounds of the model *)

\* the most leaves an explicit layout (load_tiles) drawn by Init holds
MaxCells == 4
\* the most leaves a layout drawn by Init holds when it need not be regular
MaxMixedCells == 3
\* the most cells a board built from a shape by Init holds
MaxShapeCells == 8
\* the most place/move calls made on one board
MaxCalls == 2
\* the most calls of think() made in one round without the server
MaxQueries == 3
\* the most calls of think() made in one round of the server
MaxServedQueries == 2

(* Constants of the program *)

\* len(str(load_tiles))>200
MaxTilesStrLen == 200
\* len(shape)>4
MaxDims == 4
\* dim_length<2
MinDimLength == 2
\* dim_length>10
MaxDimLength == 10
\* (datetime.now()-...["last_visit"]).seconds>30
DeadRoundSeconds == 30
\* (datetime.now()-...["last_visit"]).seconds<2
RecentSeconds == 2
\* (datetime.now()-...["last_visit"]).seconds>300
PendingRoundSeconds == 300

\* if len(cls.ONLINE_ROUNDS)>=500:
AdmissionCeiling == 500

----------------------------------------------------------------------------
(* Python values *)

PyInt(n) == [i |-> n]
PyList(s) == [l |-> s]
PyOther == [o |-> "str"]

PyBool(b) == [b |-> b]
PyNone == [n |-> "None"]
PyDict(f) == [d |-> f]

IsInt(v) == DOMAIN v = {"i"}
IsList(v) == DOMAIN v = {"l"}
IsBool(v) == DOMAIN v = {"b"}
IsDict(v) == DOMAIN v = {"d"}

\* the list of ints <<[i |-> 2], ...>> of a sequence of integers, and back
PyInts(s) == [k \in 1..Len(s) |-> PyInt(s[k])]
IntsOf(s) == [k \in 1..Len(s) |-> s[k].i]

RECURSIVE SumSeq(_)
SumSeq(s) == IF s = <<>> THEN 0 ELSE Head(s) + SumSeq(Tail(s))

RECURSIVE ProdSeq(_)
ProdSeq(s) == IF s = <<>> THEN 1 ELSE Head(s) * ProdSeq(Tail(s))

RECURSIVE DecimalDigits(_)
DecimalDigits(n) == IF n < 10 THEN 1 ELSE 1 + DecimalDigits(n \div 10)

\* len(str(v)): "[" and "]" around the items, ", " between them
RECURSIVE StrLen(_)
StrLen(v) ==
    IF IsInt(v) THEN (IF v.i < 0 THEN 1 + DecimalDigits(-v.i) ELSE DecimalDigits(v.i))
    ELSE IF IsList(v)
    THEN 2 + SumSeq([k \in 1..Len(v.l) |-> StrLen(v.l[k])])
           + (IF Len(v.l) > 1 THEN 2 * (Len(v.l) - 1) ELSE 0)
    ELSE 3

\* log(n,2)%1==0 for n>0: n is 2^k with k >= 0 (exact below 2^29, where the
\* floating-point quotient first misses a whole number)
RECURSIVE LogIsWhole(_)
LogIsWhole(n) == IF n = 1 THEN TRUE
                 ELSE IF n % 2 = 1 THEN FALSE
                 ELSE LogIsWhole(n \div 2)

----------------------------------------------------------------------------
(* Board.__init__ *)

ValidateState(err, depth, max_depth, dims_length) ==
    [err |-> err, depth |-> depth, max_depth |-> max_depth, dims_length |-> dims_length]

\* validate_tiles(tiles,depth,max_depth,dims_length): dims_length is the dict
\* shared by every recursive call, depth -> the length first seen there
RECURSIVE validate_tiles(_, _, _, _)
RECURSIVE validate_tiles_loop(_, _, _)
validate_tiles(tl, depth, max_depth, dims_length) ==
    IF depth \in DOMAIN dims_length /\ dims_length[depth] # Len(tl.l)
    THEN ValidateState("Shape of load_tiles is not regular", depth, max_depth, dims_length)
    ELSE LET dl == IF depth \in DOMAIN dims_length THEN dims_length
                   ELSE (depth :> Len(tl.l)) @@ dims_length
             r == validate_tiles_loop(tl.l, 1, ValidateState("", depth, max_depth, dl))
         IN  IF r.err # "" THEN r ELSE [r EXCEPT !.depth = r.depth - 1]

validate_tiles_loop(s, k, st) ==
    IF st.err # "" \/ k > Len(s) THEN st
    ELSE LET sub_tiles == s[k] IN
         IF IsList(sub_tiles)
         THEN IF Len(sub_tiles.l) > 0
              THEN validate_tiles_loop(s, k + 1,
                       validate_tiles(sub_tiles, st.depth + 1, st.max_depth, st.dims_length))
              ELSE [st EXCEPT !.err = "Empty tile is not allowed"]
         ELSE IF IsInt(sub_tiles)
         THEN LET md == IF st.max_depth = -1 THEN st.depth ELSE st.max_depth IN
              IF md # st.depth
              THEN [st EXCEPT !.err = "Shape of load_tiles is not regular"]
              ELSE IF sub_tiles.i < 0 \/ (sub_tiles.i > 0 /\ ~LogIsWhole(sub_tiles.i))
              THEN [st EXCEPT !.err = "At least one tile in load_tiles is not an appropriate number"]
              ELSE validate_tiles_loop(s, k + 1, [st EXCEPT !.max_depth = md])
         ELSE [st EXCEPT !.err = "load_tiles has something wrong"]

\* recursive_len(tiles): the length of the first element at every depth
RECURSIVE recursive_len(_)
recursive_len(tl) ==
    <<Len(tl.l)>> \o (IF IsList(tl.l[1]) THEN recursive_len(tl.l[1]) ELSE <<>>)

\* the zero board of a shape, filled from the inside out
RECURSIVE ZeroTiles(_)
ZeroTiles(sh) ==
    IF sh = <<>> THEN PyInt(0)
    ELSE PyList([k \in 1..Head(sh) |-> ZeroTiles(Tail(sh))])

\* the checks of the shape branch, in the order of the code
ShapeError(sh) ==
    IF Len(sh) = 0 THEN "Shape is not properly specified"
    ELSE IF Len(sh) > MaxDims THEN "Shape is not allowed to be more than 4 dimensions"
    ELSE LET bad == {k \in 1..Len(sh) :
                        ~IsInt(sh[k]) \/ sh[k].i < MinDimLength \/ sh[k].i > MaxDimLength}
             first == CHOOSE k \in bad : \A j \in bad : k <= j
         IN  IF bad = {} THEN ""
             ELSE IF ~IsInt(sh[first]) THEN "Shape is not properly specified"
             ELSE "Shape is too small or too large"

\* Board(shape,load_tiles=...): [err, shape, tiles] of the constructed board
\* (shape is always a tuple here, as Round builds it with tuple(...))
BoardNew(sh, load_tiles) ==
    IF IsList(load_tiles) /\ Len(load_tiles.l) > 0
    THEN IF StrLen(load_tiles) > MaxTilesStrLen
         THEN [err |-> "Size of load_tiles is too large", shape |-> <<>>, tiles |-> PyList(<<>>)]
         ELSE LET v == validate_tiles(load_tiles, 0, -1, [d \in {} |-> 0]) IN
              IF v.err # ""
              THEN [err |-> v.err, shape |-> <<>>, tiles |-> PyList(<<>>)]
              ELSE [err |-> "", shape |-> recursive_len(load_tiles), tiles |-> load_tiles]
    ELSE LET e == ShapeError(sh) IN
         IF e # ""
         THEN [err |-> e, shape |-> <<>>, tiles |-> PyList(<<>>)]
         ELSE [err |-> "", shape |-> IntsOf(sh), tiles |-> ZeroTiles(IntsOf(sh))]

----------------------------------------------------------------------------
(* Board.__get_tile, Board.__set_tile *)

\* __get_tile(location): walk the nested lists; location is a sequence of ints
RECURSIVE get_tile(_, _)
get_tile(tl, location) ==
    IF location = <<>> THEN tl
    ELSE get_tile(tl.l[Head(location) + 1], Tail(location))

\* __set_tile(location,number): the nested lists with that one leaf replaced
RECURSIVE set_tile(_, _, _)
set_tile(tl, location, number) ==
    IF Len(location) = 1
    THEN PyList([tl.l EXCEPT ![location[1] + 1] = PyInt(number)])
    ELSE PyList([tl.l EXCEPT ![Head(location) + 1] = set_tile(@, Tail(location), number)])

----------------------------------------------------------------------------
(* Board.__generate_sequential_coordinates *)

\* fraction after the loop has divided it by the first dim lengths of the shape
RECURSIVE Fraction(_, _)
Fraction(sh, dim) ==
    IF dim = 0 THEN ProdSeq(sh) ELSE Fraction(sh, dim - 1) \div sh[dim]

\* a faulty ordering: every axis counted up from zero, whatever the direction
SequentialComponentAscending(sh, dimension, direction, index_coordinate, dim) ==
    ((index_coordinate \div Fraction(sh, dim)) % sh[dim])

\* coordinate[dim] of the index_coordinate-th coordinate (dim is 1-based here,
\* dimension and index_coordinate are 0-based as in the code)
SequentialComponent(sh, dimension, direction, index_coordinate, dim) ==
    IF direction = -1 \/ dimension # dim - 1
    THEN ((index_coordinate \div Fraction(sh, dim)) % sh[dim])
    ELSE sh[dim] - 1 - ((index_coordinate \div Fraction(sh, dim)) % sh[dim])

generate_sequential_coordinates(sh, dimension, direction) ==
    [n \in 1..ProdSeq(sh) |->
        [dim \in 1..Len(sh) |-> SequentialComponent(sh, dimension, direction, n - 1, dim)]]

----------------------------------------------------------------------------
(* Board.move *)

\* a faulty check: direction 0 passes
MoveArgsOKDirectionZero(sh, dimension, direction) ==
    /\ IsInt(dimension)
    /\ 0 <= dimension.i /\ dimension.i < Len(sh)
    /\ direction \in {-1, 0, 1}

\* if type(dimension) is not int or (not 0<=dimension<len(self.__shape)) ...
\* elif direction not in (-1,1)
MoveArgsOK(sh, dimension, direction) ==
    /\ IsInt(dimension)
    /\ 0 <= dimension.i /\ dimension.i < Len(sh)
    /\ direction \in {-1, 1}

\* coordinate[dimension]==(0 if direction==-1 else self.__shape[dimension]-1)
AtWall(sh, coordinate, dimension, direction) ==
    coordinate[dimension + 1] = (IF direction = -1 THEN 0 ELSE sh[dimension + 1] - 1)

\* a faulty check: no cell is ever blocked
IsBlockedNever(target_coordinate, blocked_coordinates) == FALSE

\* target_coordinate in blocked_coordinates
IsBlocked(target_coordinate, blocked_coordinates) ==
    \E k \in 1..Len(blocked_coordinates) : blocked_coordinates[k] = target_coordinate

\* a faulty test: any two tiles merge
CanMergeAnyTiles(source, target) == target # 0

\* source==target
CanMerge(source, target) == source = target

\* a faulty merge: the target squared instead of doubled
MergedNumberSquared(target) == target * target

\* the number a merge leaves in the target cell
MergedNumber(target) == target * 2

\* move_tile(coordinate,dimension,direction) on the running state m of move():
\* m.tiles the board, m.blocked blocked_coordinates, m.steps the steps summed
\* so far, m.log what was done, in order (a record of the run, not program state)
RECURSIVE move_tile(_, _, _, _, _)
move_tile(m, sh, coordinate, dimension, direction) ==
    IF AtWall(sh, coordinate, dimension, direction) THEN m
    ELSE LET source == get_tile(m.tiles, coordinate).i IN
    IF source = 0 THEN m
    ELSE LET target_coordinate == [coordinate EXCEPT ![dimension + 1] = @ + direction] IN
    IF IsBlocked(target_coordinate, m.blocked) THEN m
    ELSE LET target == get_tile(m.tiles, target_coordinate).i IN
    IF CanMerge(source, target)
    THEN [tiles   |-> set_tile(set_tile(m.tiles, target_coordinate, MergedNumber(target)),
                               coordinate, 0),
          blocked |-> Append(m.blocked, target_coordinate),
          steps   |-> m.steps + 1,
          log     |-> Append(m.log, [kind |-> "merge", from |-> coordinate,
                                     to |-> target_coordinate])]
    ELSE IF target = 0
    THEN move_tile([tiles   |-> set_tile(set_tile(m.tiles, target_coordinate, source),
                                         coordinate, 0),
                    blocked |-> m.blocked,
                    steps   |-> m.steps + 1,
                    log     |-> Append(m.log, [kind |-> "slide", from |-> coordinate,
                                               to |-> target_coordinate])],
                   sh, target_coordinate, dimension, direction)
    ELSE m

\* for coordinate in sequential_coordinates: steps=steps+move_tile(...)
RECURSIVE MoveAll(_, _, _, _, _, _)
MoveAll(m, sh, coords, n, dimension, direction) ==
    IF n > Len(coords) THEN m
    ELSE MoveAll(move_tile(m, sh, coords[n], dimension, direction),
                 sh, coords, n + 1, dimension, direction)

\* a faulty result: one step does not count
MoveReturnSecondStep(steps) == steps > 1

\* return steps>0
MoveReturn(steps) == steps > 0

\* Board.move(dimension,direction): [ret, tiles, blocked, log]
BoardMove(sh, tl, dimension, direction) ==
    IF ~MoveArgsOK(sh, dimension, direction)
    THEN [ret |-> FALSE, tiles |-> tl, blocked |-> <<>>, log |-> <<>>]
    ELSE LET m == MoveAll([tiles |-> tl, blocked |-> <<>>, steps |-> 0, log |-> <<>>],
                          sh, generate_sequential_coordinates(sh, dimension.i, direction),
                          1, dimension.i, direction)
         IN  [ret |-> MoveReturn(m.steps), tiles |-> m.tiles,
              blocked |-> m.blocked, log |-> m.log]

----------------------------------------------------------------------------
(* Board.place *)

\* the checks of place() before it reads the target tile
PlaceLocationOK(sh, location) ==
    /\ Len(location) = Len(sh)
    /\ \A index \in 1..Len(location) :
          /\ IsInt(location[index])
          /\ 0 <= location[index].i /\ location[index].i < sh[index]

\* a faulty check: an occupied cell counts as free
PlaceTargetFreeAlways(tl, location) == TRUE

\* self.__get_tile(location)==0
PlaceTargetFree(tl, location) == get_tile(tl, IntsOf(location)).i = 0

\* a faulty draw: 2 or 8
PlaceNumberEight(r) == IF r < 9 THEN 2 ELSE 8

\* 2 if random.randint(0,9)<9 else 4
PlaceNumber(r) == IF r < 9 THEN 2 ELSE 4

\* Board.place(location) when the number drawn is number: [ret, tiles]
BoardPlace(sh, tl, location, number) ==
    IF ~PlaceLocationOK(sh, location) THEN [ret |-> FALSE, tiles |-> tl]
    ELSE IF PlaceTargetFree(tl, location)
    THEN [ret |-> TRUE, tiles |-> set_tile(tl, IntsOf(location), number)]
    ELSE [ret |-> FALSE, tiles |-> tl]

----------------------------------------------------------------------------
(* The inputs the model draws *)

\* leaves of the layouts enumerated in full, and leaves tried in a few layouts only
LeafInputs == {PyInt(0), PyInt(2), PyInt(4)}
BadLeafInputs == {PyInt(-2), PyInt(1), PyInt(3), PyInt(6), PyOther}

\* the layouts of one shape: a leaf for the empty shape, else a list of
\* Head(sh) layouts of the shape Tail(sh)
RECURSIVE LayoutsOfShape(_)
LayoutsOfShape(sh) ==
    IF sh = <<>> THEN LeafInputs
    ELSE {PyList(s) : s \in [1..Head(sh) -> LayoutsOfShape(Tail(sh))]}

\* every regular layout of nesting depth 1 or 2 with at most MaxCells leaves
\* (sides of length 1 included)
RegularLayouts ==
    UNION {LayoutsOfShape(sh) :
              sh \in {t \in [1..1 -> 1..MaxCells] \cup [1..2 -> 1..MaxCells] :
                         ProdSeq(t) <= MaxCells}}

\* an item of a layout holding k leaves: a leaf, an empty list, or a list of k leaves
LayoutItems(k) ==
    (IF k = 1 THEN LeafInputs \cup {PyList(<<>>)} ELSE {})
        \cup {PyList(row) : row \in [1..k -> LeafInputs]}

\* the sequences of items holding n leaves in all: regular and irregular
\* layouts of nesting depth 1 and 2, and mixes of leaves and lists
RECURSIVE LayoutSeqs(_)
LayoutSeqs(n) ==
    IF n = 0 THEN {<<>>}
    ELSE UNION {{<<item>> \o rest : item \in LayoutItems(k), rest \in LayoutSeqs(n - k)} :
                   k \in 1..n}

\* every layout, regular or not, with at most MaxMixedCells leaves
MixedLayouts == {PyList(s) : s \in UNION {LayoutSeqs(n) : n \in 1..MaxMixedCells}}

\* a few layouts of depth 1, 2 and 3 around each of the other leaves
BadLeafLayouts ==
    UNION {{PyList(<<b>>),
            PyList(<<PyInt(2), b>>),
            PyList(<<PyList(<<PyInt(2), b>>), PyList(<<PyInt(0), PyInt(0)>>)>>),
            PyList(<<PyList(<<PyList(<<PyInt(2), b>>)>>)>>)} :
              b \in BadLeafInputs}

\* an empty row one cell longer than the longest dimension a shape may have
LongRowLayouts == {PyList([k \in 1..(MaxDimLength + 1) |-> PyInt(0)])}

LayoutInputs == RegularLayouts \cup MixedLayouts \cup BadLeafLayouts \cup LongRowLayouts

\* shape arguments: every tuple of at most MaxDims+1 of these sides that the
\* constructor refuses, or that gives a board of at most MaxShapeCells cells
SideInputs == {PyInt(1), PyInt(2), PyInt(3), PyInt(11), PyOther}

ShapeInputs ==
    {sh \in UNION {[1..n -> SideInputs] : n \in 0..(MaxDims + 1)} :
        ShapeError(sh) # "" \/ ProdSeq(IntsOf(sh)) <= MaxShapeCells}

\* shape=(4,4), the default the constructor ignores when load_tiles is given
DefaultShape == PyInts(<<4, 4>>)

ConstructorInputs ==
    {<<sh, PyList(<<>>)>> : sh \in ShapeInputs}
        \cup {<<DefaultShape, load_tiles>> : load_tiles \in LayoutInputs}

\* every coordinate of a board of shape sh, as a sequence of ints
AllCoordinates(sh) ==
    LET longest == CHOOSE n \in {sh[k] : k \in 1..Len(sh)} : \A k \in 1..Len(sh) : sh[k] <= n
    IN  {c \in [1..Len(sh) -> 0..(longest - 1)] : \A k \in 1..Len(sh) : c[k] < sh[k]}

Origin(sh) == PyInts([k \in 1..Len(sh) |-> 0])

\* locations place() must refuse: one component negative, one past the end,
\* one that is no int, one component too few, one too many
BadLocations(sh) ==
    UNION {{[Origin(sh) EXCEPT ![k] = b] : b \in {PyInt(-1), PyInt(sh[k]), PyOther}} :
              k \in 1..Len(sh)}
        \cup {SubSeq(Origin(sh), 1, Len(sh) - 1), Append(Origin(sh), PyInt(0))}

LocationInputs(sh) == {PyInts(c) : c \in AllCoordinates(sh)} \cup BadLocations(sh)

\* (dimension, direction) arguments: every axis with every direction in -1..2,
\* and the dimensions -1, len(shape) and a non-int with the two legal directions
MoveInputs(sh) ==
    {<<PyInt(d), dir>> : d \in 0..(Len(sh) - 1), dir \in {-1, 0, 1, 2}}
        \cup {<<d, dir>> : d \in {PyInt(-1), PyInt(Len(sh)), PyOther}, dir \in {-1, 1}}

----------------------------------------------------------------------------
(* The Round, its mailbox and the server threads: their values at the start *)

\* a faulty order of the two inner loops of Round.start
FirstRoleDefender == "defender"

\* the first inner loop of "while round_ended==False" queries the attacker
FirstRole == "attacker"

OtherRole(role) == IF role = "attacker" THEN "defender" ELSE "attacker"

\* Round(uuid=...,board_shape=...,board_tiles=...,attacker_type=...,
\* defender_type=...) before start() is called.  pc is the statement
\* Round.start stands at, role the inner loop it is in, outcome what became
\* of the last decision, round_score the value start() returned.  While
\* Board.move is followed write by write, before is the board it was called
\* on and writes are the boards its remaining __set_tile calls lead to
NewRound(attacker_type, defender_type, board_shape, board_tiles) ==
    [pc |-> "new", role |-> FirstRole,
     attacker_type |-> attacker_type, defender_type |-> defender_type,
     board_shape |-> board_shape, board_tiles |-> board_tiles,
     outcome |-> "none", round_score |-> PyNone,
     before |-> PyList(<<>>), writes |-> <<>>]

NoRound == NewRound("", "", <<>>, PyList(<<>>))

\* a faulty initialisation: the attacker's wait flag starts raised
NewMailboxAttackerWaiting(attacker_type, defender_type) ==
    [registered |-> TRUE, board_tiles |-> PyList(<<>>),
     attacker_type |-> attacker_type, attacker_wait |-> TRUE,
     attacker_instruction |-> PyDict(<<>>),
     defender_type |-> defender_type, defender_wait |-> FALSE,
     defender_instruction |-> PyDict(<<>>),
     last_visit |-> 0, last_update |-> 0, unoccupied_role |-> "",
     round_score |-> PyNone]

\* a faulty initialisation: the entry starts with a score of 0
NewMailboxScored(attacker_type, defender_type) ==
    [registered |-> TRUE, board_tiles |-> PyList(<<>>),
     attacker_type |-> attacker_type, attacker_wait |-> FALSE,
     attacker_instruction |-> PyDict(<<>>),
     defender_type |-> defender_type, defender_wait |-> FALSE,
     defender_instruction |-> PyDict(<<>>),
     last_visit |-> 0, last_update |-> 0, unoccupied_role |-> "",
     round_score |-> PyInt(0)]

\* ONLINE_ROUNDS[round_uuid] as online_round() fills it before it calls
\* start().  last_visit and last_update hold the seconds that have passed
\* since the datetime.now() stored there; round_score is None while the key
\* is absent
NewMailbox(attacker_type, defender_type) ==
    [registered |-> TRUE, board_tiles |-> PyList(<<>>),
     attacker_type |-> attacker_type, attacker_wait |-> FALSE,
     attacker_instruction |-> PyDict(<<>>),
     defender_type |-> defender_type, defender_wait |-> FALSE,
     defender_instruction |-> PyDict(<<>>),
     last_visit |-> 0, last_update |-> 0, unoccupied_role |-> "",
     round_score |-> PyNone]

\* round_uuid not in Server.ONLINE_ROUNDS
NoMailbox == [NewMailbox("", "") EXCEPT !.registered = FALSE]

\* the web server between two requests: wsgiref serves one request at a time
IdleRequest ==
    [pc |-> "idle", role |-> "attacker", giveup |-> FALSE, args |-> <<>>,
     index |-> 0, query |-> 0, clean |-> TRUE]

\* __clean_online_rounds in its sleep(10)
SleepingSweep == [pc |-> "sleep"]

\* the entries of Server.ONLINE_ROUNDS besides the mailbox: filled counts the
\* entries online_round() has filled, unfilled those it left with the key
\* "thread" alone; uuid is the identifier the last start request answered
\* with ("none": no start request yet, "null": None, "uuid4": a new one);
\* unoccupied is the answer of the request with get_an_unoccupied_game that
\* is being served ("none": no such request, "null": None, "this": the
\* round of the mailbox, "other": another round, "fault": KeyError)
NewRegistry(filled, unfilled) ==
    [filled |-> filled, unfilled |-> unfilled, uuid |-> "none",
     unoccupied |-> "none"]

\* ONLINE_ROUNDS={} of the class Server
NoRegistry == NewRegistry(0, 0)

PerRole(v) == [attacker |-> v, defender |-> v]

\* nothing has happened yet.  queries: think() calls begun, answers: think()
\* calls ended, places and moves: calls of the mutators that returned True,
\* slot: how the instruction in the slot was written, rises and falls: the
\* changes of the wait flag within the query, turn_rises and turn_falls:
\* within the turn, forced: the cleaning thread has put down the raised flag,
\* accepted: an attack or a defend has passed the test of the wait flag,
\* asked_role: the unoccupied_role parameter of the start request, claimed:
\* a page request has taken the role that was open
NoHistory ==
    [queries |-> PerRole(0), answers |-> 0, places |-> 0, moves |-> 0,
     kept_going |-> FALSE, raised |-> FALSE, start_tiles |-> PyList(<<>>),
     slot |-> PerRole("stale"), rises |-> PerRole(0), falls |-> PerRole(0),
     turn_rises |-> PerRole(0), turn_falls |-> PerRole(0),
     forced |-> PerRole(FALSE), accepted |-> FALSE,
     asked_role |-> "", claimed |-> FALSE]

----------------------------------------------------------------------------
(* The board as a state machine: construction, then place and move calls *)

Call(op, dimension, direction, location, ret, before, shape_before, blocked, log) ==
    [op |-> op, dimension |-> dimension, direction |-> direction,
     location |-> location, ret |-> ret, before |-> before,
     shape_before |-> shape_before, blocked |-> blocked, log |-> log]

BoardInit ==
    \E in \in ConstructorInputs :
        LET b == BoardNew(in[1], in[2]) IN
        /\ board_error = b.err
        /\ shape = b.shape
        /\ tiles = b.tiles
        /\ last = Call("new", PyOther, 0, <<>>, FALSE, b.tiles, b.shape, <<>>, <<>>)
        /\ ncalls = 0
        /\ round = NoRound
        /\ mailbox = NoMailbox
        /\ request = IdleRequest
        /\ sweep = SleepingSweep
        /\ history = NoHistory
        /\ registry = NoRegistry

Move ==
    /\ board_error = ""
    /\ ncalls < MaxCalls
    /\ \E in \in MoveInputs(shape) :
          LET r == BoardMove(shape, tiles, in[1], in[2]) IN
          /\ tiles' = r.tiles
          /\ last' = Call("move", in[1], in[2], <<>>, r.ret, tiles, shape, r.blocked, r.log)
    /\ ncalls' = ncalls + 1
    /\ UNCHANGED <<board_error, shape>>
    /\ UNCHANGED roundVars

Place ==
    /\ board_error = ""
    /\ ncalls < MaxCalls
    /\ \E location \in LocationInputs(shape), number \in {PlaceNumber(r) : r \in 0..9} :
          LET p == BoardPlace(shape, tiles, location, number) IN
          /\ tiles' = p.tiles
          /\ last' = Call("place", PyOther, 0, location, p.ret, tiles, shape, <<>>, <<>>)
    /\ ncalls' = ncalls + 1
    /\ UNCHANGED <<board_error, shape>>
    /\ UNCHANGED roundVars

BoardNext == Move \/ Place

BoardSpec == BoardInit /\ [][BoardNext]_vars

----------------------------------------------------------------------------
(* Decisions and the checks of get_place_instruction, get_move_instruction *)

PlaceInstruction(keepgoing, location) ==
    PyDict([keepgoing |-> PyBool(keepgoing), location |-> location])

MoveInstruction(keepgoing, dimension, direction) ==
    PyDict([keepgoing |-> PyBool(keepgoing), dimension |-> dimension,
            direction |-> direction])

\* Base_Attacker.get_place_instruction after think() returned: the text of
\* the exception it raises, "" when it returns the instruction.  (The loop
\* over the members of location stands behind a raise and never runs.)
get_place_instruction(place_instruction) ==
    IF ~IsDict(place_instruction)
    THEN "place_instruction is not a dictionary"
    ELSE IF Cardinality(DOMAIN place_instruction.d) # 2
    THEN "place_instruction does not have two members only"
    ELSE IF ~({"keepgoing", "location"} \subseteq DOMAIN place_instruction.d)
    THEN "place_instruction does not have expected members"
    ELSE IF ~IsBool(place_instruction.d.keepgoing)
    THEN "place keepgoing is not a bool"
    ELSE IF place_instruction.d.keepgoing.b /\ ~IsList(place_instruction.d.location)
    THEN "place location is not a list"
    ELSE ""

\* Base_Defender.get_move_instruction after think() returned
get_move_instruction(move_instruction) ==
    IF ~IsDict(move_instruction)
    THEN "move_instruction is not a dictionary"
    ELSE IF Cardinality(DOMAIN move_instruction.d) # 3
    THEN "move instruction does not have three members only"
    ELSE IF ~({"keepgoing", "dimension", "direction"} \subseteq DOMAIN move_instruction.d)
    THEN "move instruction does not have expected members"
    ELSE IF ~IsBool(move_instruction.d.keepgoing)
    THEN "move keepgoing is not a bool"
    ELSE IF move_instruction.d.keepgoing.b
    THEN IF ~IsInt(move_instruction.d.dimension)
         THEN "move dimension is not a number"
         ELSE IF ~(IsInt(move_instruction.d.direction)
                     /\ move_instruction.d.direction.i \in {-1, 1})
         THEN "move direction is neither -1 nor 1"
         ELSE ""
    ELSE ""

----------------------------------------------------------------------------
(* The providers: what a call of think(tiles) can end with *)

Returned(value) == [kind |-> "return", value |-> value]
\* an exception of class Exception
Raised(text) == [kind |-> "raise", value |-> [o |-> text]]
\* sys.exit(text): SystemExit, which is no Exception
Exited(text) == [kind |-> "exit", value |-> [o |-> text]]

\* Random_Attacker.think: find_zero_tiles, then random.choice
RECURSIVE find_zero_tiles(_, _)
find_zero_tiles(tl, coordinate) ==
    UNION {IF IsList(tl.l[index])
           THEN find_zero_tiles(tl.l[index], Append(coordinate, index - 1))
           ELSE IF tl.l[index].i = 0 THEN {Append(coordinate, index - 1)} ELSE {} :
             index \in 1..Len(tl.l)}

\* Strategy_Attacker.think: recursive_tile collects (number, coordinate)
RECURSIVE recursive_tile(_, _)
recursive_tile(tl, coordinate) ==
    UNION {IF IsList(tl.l[index])
           THEN recursive_tile(tl.l[index], Append(coordinate, index - 1))
           ELSE {<<tl.l[index].i, Append(coordinate, index - 1)>>} :
             index \in 1..Len(tl.l)}

\* a faulty attacker: any tile of the board, zero or not
Random_Attacker_think_any_tile(tl) ==
    {Returned(PlaceInstruction(TRUE, PyList(PyInts(p[2])))) : p \in recursive_tile(tl, <<>>)}

Random_Attacker_think(tl) ==
    LET zero_tiles == find_zero_tiles(tl, <<>>) IN
    IF zero_tiles # {}
    THEN {Returned(PlaceInstruction(TRUE, PyList(PyInts(c)))) : c \in zero_tiles}
    ELSE {Returned(PlaceInstruction(FALSE, PyNone))}

AbsDiff(a, b) == IF a < b THEN b - a ELSE a - b

is_adjoining(location_a, location_b) ==
    /\ \A index \in 1..Len(location_a) :
          AbsDiff(location_a[index], location_b[index]) <= 1
    /\ Cardinality({index \in 1..Len(location_a) :
                       AbsDiff(location_a[index], location_b[index]) = 1}) = 1

\* Strategy_Attacker.think: the zero tiles next to a tile of the greatest
\* number that has any
Strategy_Attacker_think(tl) ==
    LET tiles_location == recursive_tile(tl, <<>>)
        zeros == {p[2] : p \in {q \in tiles_location : q[1] = 0}}
        adjoining(number) ==
            {z \in zeros : \E p \in tiles_location :
                              p[1] = number /\ is_adjoining(p[2], z)}
        numbers == {p[1] : p \in {q \in tiles_location : adjoining(q[1]) # {}}}
    IN  IF zeros # {} /\ numbers # {}
        THEN LET greatest_number == CHOOSE n \in numbers : \A m \in numbers : m <= n
             IN  {Returned(PlaceInstruction(TRUE, PyList(PyInts(z)))) :
                     z \in adjoining(greatest_number)}
        ELSE {Returned(PlaceInstruction(FALSE, PyNone))}

\* the lines a player can type at the prompt of Manual_Attacker: "giveup", or
\* numbers separated by commas (here: every cell with coordinates 0 and 1, a
\* number past the end, one number too many)
TypedLocations(sh) ==
    {PyInts(c) : c \in {a \in AllCoordinates(sh) : \A k \in 1..Len(sh) : a[k] <= 1}}
        \cup {[Origin(sh) EXCEPT ![1] = PyInt(sh[1])], Append(Origin(sh), PyInt(0))}

\* Manual_Attacker.think: the loop over input() ends with "giveup" or with a
\* list of numbers; input() raises EOFError when the input has ended
Manual_Attacker_think(sh) ==
    {Returned(PlaceInstruction(FALSE, PyList(<<>>)))}
        \cup {Returned(PlaceInstruction(TRUE, PyList(location))) :
                 location \in TypedLocations(sh)}
        \cup {Raised("EOF when reading a line")}

\* recursive_dims of the defenders: the depth along the first elements
RECURSIVE recursive_dims(_)
recursive_dims(tl) == IF IsList(tl) THEN 1 + recursive_dims(tl.l[1]) ELSE 0

\* (Board(load_tiles=tiles)).move(dim,direction) on a scratch board:
\* [err, ret], err the text of the exception of the constructor
ScratchMove(tl, dim, direction) ==
    LET b == BoardNew(DefaultShape, tl) IN
    IF b.err # "" THEN [err |-> b.err, ret |-> FALSE]
    ELSE [err |-> "", ret |-> BoardMove(b.shape, b.tiles, PyInt(dim), direction).ret]

GiveUpMove == MoveInstruction(FALSE, PyNone, PyNone)

\* Random_Defender.think
Random_Defender_think(tl) ==
    LET dims == recursive_dims(tl)
        possible_moves == {m \in (0..(dims - 1)) \X {-1, 1} : ScratchMove(tl, m[1], m[2]).ret}
    IN  IF ScratchMove(tl, 0, -1).err # ""
        THEN {Raised(ScratchMove(tl, 0, -1).err)}
        ELSE IF possible_moves # {}
        THEN {Returned(MoveInstruction(TRUE, PyInt(m[1]), PyInt(m[2]))) : m \in possible_moves}
        ELSE {Returned(GiveUpMove)}

\* Strategy_Defender.think: the axes upwards with -1, then downwards with 1
Strategy_Defender_think(tl) ==
    LET dims == recursive_dims(tl)
        toward == {dim \in 0..(dims - 1) : ScratchMove(tl, dim, -1).ret}
        away == {dim \in 0..(dims - 1) : ScratchMove(tl, dim, 1).ret}
    IN  IF ScratchMove(tl, 0, -1).err # ""
        THEN {Raised(ScratchMove(tl, 0, -1).err)}
        ELSE IF toward # {}
        THEN {Returned(MoveInstruction(TRUE,
                  PyInt(CHOOSE dim \in toward : \A e \in toward : dim <= e), PyInt(-1)))}
        ELSE IF away # {}
        THEN {Returned(MoveInstruction(TRUE,
                  PyInt(CHOOSE dim \in away : \A e \in away : e <= dim), PyInt(1)))}
        ELSE {Returned(GiveUpMove)}

\* Manual_Defender.think: "giveup", or an axis number and -1 or 1 (here:
\* every axis and the number past the last axis)
Manual_Defender_think(sh) ==
    {Returned(GiveUpMove)}
        \cup {Returned(MoveInstruction(TRUE, PyInt(dimension), PyInt(direction))) :
                 dimension \in 0..Len(sh), direction \in {-1, 1}}
        \cup {Raised("EOF when reading a line")}

\* a faulty constructor: the board takes the list it is given
ScratchShares(load_tiles, moved) == moved

\* self.__tiles=deepcopy(load_tiles): what the list of the caller holds after
\* a move of the new board, whose own tiles have become moved
ScratchKeeps(load_tiles, moved) == load_tiles

\* the list tl of the caller after (Board(load_tiles=tl)).move(dim,direction)
Trial(tl, dim, direction) ==
    LET b == BoardNew(DefaultShape, tl) IN
    IF b.err # "" THEN tl
    ELSE ScratchKeeps(tl, BoardMove(b.shape, b.tiles, PyInt(dim), direction).tiles)

\* the trial moves of the defenders in the order of the code: Random tries
\* -1 and 1 on each axis in turn; Strategy tries -1 on the axes upwards, then
\* 1 on the axes downwards, and returns at the first move that succeeds
DefenderTrials(kind, dims) ==
    IF kind = "Random"
    THEN [k \in 1..(2 * dims) |-> <<(k - 1) \div 2, IF k % 2 = 1 THEN -1 ELSE 1>>]
    ELSE [k \in 1..(2 * dims) |-> IF k <= dims THEN <<k - 1, -1>> ELSE <<2 * dims - k, 1>>]

\* the list of the caller after the trials from the n-th on (the list after
\* one trial is computed before the next trial is followed)
RECURSIVE AfterTrials(_, _, _, _)
AfterTrials(tl, trials, n, returns_at_first) ==
    IF n > Len(trials) THEN tl
    ELSE LET scratch == ScratchMove(tl, trials[n][1], trials[n][2]) IN
         IF scratch.err # "" THEN tl
         ELSE CHOOSE result \in
                  {IF returns_at_first /\ scratch.ret THEN after
                   ELSE AfterTrials(after, trials, n + 1, returns_at_first) :
                      after \in {Trial(tl, trials[n][1], trials[n][2])}} : TRUE

\* board.get_tiles(), the list of the board of the Round, after think(tiles)
AfterThink(role, kind, tl) ==
    IF role = "defender" /\ kind \in {"Random", "Strategy"}
    THEN AfterTrials(tl, DefenderTrials(kind, recursive_dims(tl)), 1, kind = "Strategy")
    ELSE tl

\* think() of a provider that is not Online
Think(role, kind, sh, tl) ==
    IF role = "attacker"
    THEN CASE kind = "Random" -> Random_Attacker_think(tl)
           [] kind = "Strategy" -> Strategy_Attacker_think(tl)
           [] kind = "Manual" -> Manual_Attacker_think(sh)
    ELSE CASE kind = "Random" -> Random_Defender_think(tl)
           [] kind = "Strategy" -> Strategy_Defender_think(tl)
           [] kind = "Manual" -> Manual_Defender_think(sh)

\* the classes <kind>_Attacker and <kind>_Defender of the module
ProviderClasses == {"Random", "Manual", "Online", "Strategy", "Base"}

\* eval(type+"_Attacker(...)") and the check of type(...).__base__: the reason
\* the provider is refused, "" when it is created
ProviderError(kind) ==
    IF kind \notin ProviderClasses THEN "name is not defined"
    ELSE IF kind = "Base" THEN "not properly derived"
    ELSE ""

----------------------------------------------------------------------------
(* Round.get_score *)

\* the whole part of log(n,2) for n >= 1
RECURSIVE FloorLog(_)
FloorLog(n) == IF n < 2 THEN 0 ELSE 1 + FloorLog(n \div 2)

\* a faulty term: the tile times its logarithm
TileScoreWholeLog(sub_tiles) ==
    IF sub_tiles = 0 THEN 0 ELSE sub_tiles * FloorLog(sub_tiles)

\* 0 if sub_tiles==0 else sub_tiles*int(log(sub_tiles,2)-1): int() cuts
\* towards zero, log(n,2)-1 is -1 for n = 1 and at least 0 for n >= 2
TileScore(sub_tiles) ==
    IF sub_tiles = 0 THEN 0 ELSE sub_tiles * (FloorLog(sub_tiles) - 1)

\* get_score(tiles,score): score after the first k passes of the loop
RECURSIVE get_score(_, _)
RECURSIVE get_score_loop(_, _, _)
get_score(tl, score) == get_score_loop(tl.l, Len(tl.l), score)
get_score_loop(s, k, score) ==
    IF k = 0 THEN score
    ELSE LET before == get_score_loop(s, k - 1, score) IN
         IF IsList(s[k]) THEN get_score(s[k], before)
         ELSE before + TileScore(s[k].i)

----------------------------------------------------------------------------
(* Round.start: what it does with the answer of a provider *)

TypeKey(role) == IF role = "attacker" THEN "attacker_type" ELSE "defender_type"
WaitKey(role) == IF role = "attacker" THEN "attacker_wait" ELSE "defender_wait"
InstructionKey(role) ==
    IF role = "attacker" THEN "attacker_instruction" ELSE "defender_instruction"

\* the body of the inner loop after the call of get_place_instruction or
\* get_move_instruction: [tag, tiles].  tag is "exit" (SystemExit), "raise"
\* (an Exception of think), "malformed" (an Exception of the check),
\* "applied" and "rejected" (the mutator returned True, False), "giveup"
Decide(role, outcome, sh, tl, number) ==
    IF outcome.kind = "exit" THEN [tag |-> "exit", tiles |-> tl]
    ELSE IF outcome.kind = "raise" THEN [tag |-> "raise", tiles |-> tl]
    ELSE IF role = "attacker"
    THEN IF get_place_instruction(outcome.value) # ""
         THEN [tag |-> "malformed", tiles |-> tl]
         ELSE IF outcome.value.d.keepgoing.b
         THEN LET p == BoardPlace(sh, tl, outcome.value.d.location.l, number) IN
              [tag |-> IF p.ret THEN "applied" ELSE "rejected", tiles |-> p.tiles]
         ELSE [tag |-> "giveup", tiles |-> tl]
    ELSE IF get_move_instruction(outcome.value) # ""
         THEN [tag |-> "malformed", tiles |-> tl]
         ELSE IF outcome.value.d.keepgoing.b
         THEN LET m == BoardMove(sh, tl, outcome.value.d.dimension,
                                 outcome.value.d.direction.i) IN
              [tag |-> IF m.ret THEN "applied" ELSE "rejected", tiles |-> m.tiles]
         ELSE [tag |-> "giveup", tiles |-> tl]

\* a faulty handler: every fault of a provider ends the round
AbortsOnAnyFault(tag) == tag \in {"exit", "raise", "malformed"}

\* except SystemExit: ... sys.exit()
Aborts(tag) == tag = "exit"

\* a faulty branch: the surrender is taken for a failed instruction
RoundEndsNever(tag) == FALSE

\* the else of "if not round_ended and ..._instruction["keepgoing"]":
\* round_ended=True, break
RoundEnds(tag) == tag = "giveup"

\* a faulty branch: break whatever place() or move() returned
TurnPassesOnReject(tag) == tag \in {"applied", "rejected"}

\* if place_succeeded: break / if move_succeeded: break
TurnPasses(tag) == tag = "applied"

\* the Round after the answer: aborted, at the score, in the other inner
\* loop, or at the top of the same inner loop (continue)
AfterDecision(r, tag) ==
    IF Aborts(tag) THEN [r EXCEPT !.pc = "aborted", !.outcome = tag]
    ELSE IF RoundEnds(tag) THEN [r EXCEPT !.pc = "score", !.outcome = tag]
    ELSE IF TurnPasses(tag)
    THEN [r EXCEPT !.pc = "query", !.role = OtherRole(r.role), !.outcome = tag]
    ELSE [r EXCEPT !.pc = "query", !.outcome = tag]

ReturnsKeepGoing(outcome) ==
    /\ outcome.kind = "return"
    /\ IsDict(outcome.value)
    /\ "keepgoing" \in DOMAIN outcome.value.d
    /\ outcome.value.d.keepgoing = PyBool(TRUE)

\* the history after think() was called
Queried(h, role) ==
    [h EXCEPT !.queries[role] = @ + 1, !.rises[role] = 0, !.falls[role] = 0]

\* the history after the answer was dealt with
Answered(h, role, outcome, tag) ==
    LET passes == ~Aborts(tag) /\ ~RoundEnds(tag) /\ TurnPasses(tag) IN
    [h EXCEPT !.answers = @ + 1,
              !.places = IF role = "attacker" /\ tag = "applied" THEN @ + 1 ELSE @,
              !.moves = IF role = "defender" /\ tag = "applied" THEN @ + 1 ELSE @,
              !.kept_going = @ \/ ReturnsKeepGoing(outcome),
              !.raised = @ \/ outcome.kind # "return",
              !.turn_rises[OtherRole(role)] = IF passes THEN 0 ELSE @,
              !.turn_falls[OtherRole(role)] = IF passes THEN 0 ELSE @]

\* the history after a wait flag was written
FlagWritten(h, role, old, new) ==
    [h EXCEPT !.rises[role] = IF ~old /\ new THEN @ + 1 ELSE @,
              !.falls[role] = IF old /\ ~new THEN @ + 1 ELSE @,
              !.turn_rises[role] = IF ~old /\ new THEN @ + 1 ELSE @,
              !.turn_falls[role] = IF old /\ ~new THEN @ + 1 ELSE @]

TotalQueries(h) == h.queries.attacker + h.queries.defender

\* the thread of online_round() has not ended
Alive(r) == r.pc \notin {"done", "aborted"}

----------------------------------------------------------------------------
(* The rounds the model starts *)

\* the kinds asked for: the four providers, the base class, a name that no
\* class has
KindInputs == {"Random", "Strategy", "Manual", "Online", "Base", "Foo"}

\* the kinds asked of the server
ServedKindInputs == {"Random", "Manual", "Online", "Foo"}

\* a faulty online_round(): the kinds are taken as they were asked
ServerKindsAsAsked(attacker_type, defender_type) == <<attacker_type, defender_type>>

\* online_round(): Manual becomes Random (attacker) or Online (defender), and
\* a round without an Online provider gets an Online defender
ServerKinds(attacker_type, defender_type) ==
    LET a == IF attacker_type = "Manual" THEN "Random" ELSE attacker_type
        d == IF defender_type = "Manual" THEN "Online" ELSE defender_type
    IN  <<a, IF a # "Online" /\ d # "Online" THEN "Online" ELSE d>>

\* the names of the roles in the query strings
RoleNames == {"Attacker", "Defender"}

\* a faulty online_round(): the role is left open whatever the kinds are
UnoccupiedRoleOfAnyKinds(attacker_type, defender_type, asked) ==
    IF asked \in RoleNames THEN asked ELSE ""

\* online_round(): ...["unoccupied_role"]="", and the role asked for when
\* both kinds are Online and the role is Attacker or Defender
UnoccupiedRole(attacker_type, defender_type, asked) ==
    IF attacker_type = "Online" /\ defender_type = "Online" /\ asked \in RoleNames
    THEN asked
    ELSE ""

\* (board_shape, board_tiles) of the rounds the server starts: a row with an
\* 8, a row of one cell, a tile 3
ServedBoardInputs ==
    {<<DefaultShape, PyList(PyInts(<<0, 8>>))>>,
     <<DefaultShape, PyList(PyInts(<<0>>))>>,
     <<DefaultShape, PyList(PyInts(<<3, 0>>))>>}

\* and of the rounds started without the server: also the boards of two and
\* of four cells, a full row, a row of 11 cells, a side of 1, a shape of five
\* dimensions
LocalBoardInputs ==
    ServedBoardInputs
        \cup {<<PyInts(<<2>>), PyList(<<>>)>>,
              <<PyInts(<<2, 2>>), PyList(<<>>)>>,
              <<DefaultShape, PyList(PyInts(<<2, 4>>))>>,
              <<DefaultShape, PyList([k \in 1..(MaxDimLength + 1) |-> PyInt(0)])>>,
              <<PyInts(<<1>>), PyList(<<>>)>>,
              <<PyInts(<<2, 2, 2, 2, 2>>), PyList(<<>>)>>}

\* the value of the parameter attack: "giveup", or numbers separated by commas
\* (-1 stands for a member that is not numeric)
AttackInputs ==
    {[giveup |-> TRUE, args |-> <<>>]}
        \cup {[giveup |-> FALSE, args |-> a] :
                 a \in {<<0>>, <<1>>, <<0, 0>>}}

\* the value of the parameter defend: "giveup", an axis and a direction (0
\* stands for a direction that is neither "-1" nor "1"), or one member only
DefendInputs ==
    {[giveup |-> TRUE, args |-> <<>>]}
        \cup {[giveup |-> FALSE, args |-> a] :
                 a \in {<<0, -1>>, <<0, 1>>, <<0, 0>>, <<0>>}}

SubmitInputs(role) == IF role = "attacker" THEN AttackInputs ELSE DefendInputs

\* board_tiles=tiles in think(): the mailbox holds the list of the board
\* itself, no copy of it
BoardRef == [ref |-> "tiles"]

\* the calls of think() the model follows a round for
QueryBound == IF mailbox.registered THEN MaxServedQueries ELSE MaxQueries

RoundInit ==
    /\ \E served \in BOOLEAN :
       \E attacker_type \in (IF served THEN ServedKindInputs ELSE KindInputs),
          defender_type \in (IF served THEN ServedKindInputs ELSE KindInputs) :
          LET kinds == IF served THEN ServerKinds(attacker_type, defender_type)
                       ELSE <<attacker_type, defender_type>>
          IN  /\ \E in \in (IF served THEN ServedBoardInputs ELSE LocalBoardInputs) :
                    round = NewRound(kinds[1], kinds[2], in[1], in[2])
              /\ mailbox = IF served THEN NewMailbox(kinds[1], kinds[2]) ELSE NoMailbox
    /\ request = IdleRequest
    /\ sweep = SleepingSweep
    /\ history = NoHistory
    /\ registry = NoRegistry
    /\ board_error = ""
    /\ shape = <<>>
    /\ tiles = PyList(<<>>)
    /\ last = Call("new", PyOther, 0, <<>>, FALSE, PyList(<<>>), <<>>, <<>>, <<>>)
    /\ ncalls = 0

----------------------------------------------------------------------------
(* The thread of the Round *)

\* the try block of Round.start: the board, the attacker, the defender
RoundStart ==
    /\ round.pc = "new"
    /\ LET b == BoardNew(round.board_shape, round.board_tiles)
           started == /\ b.err = ""
                      /\ ProviderError(round.attacker_type) = ""
                      /\ ProviderError(round.defender_type) = ""
       IN  /\ board_error' = b.err
           /\ shape' = b.shape
           /\ tiles' = b.tiles
           /\ round' = [round EXCEPT !.pc = IF started THEN "query" ELSE "aborted"]
           /\ history' = [history EXCEPT !.start_tiles = b.tiles]
    /\ UNCHANGED <<last, ncalls, mailbox, request, sweep, registry>>

\* one pass of an inner loop with a provider that is not Online: the query,
\* the check of the answer, the mutator
RoundTurn ==
    /\ round.pc = "query"
    /\ round[TypeKey(round.role)] # "Online"
    /\ TotalQueries(history) < QueryBound
    /\ \E outcome \in Think(round.role, round[TypeKey(round.role)], shape, tiles),
          number \in {PlaceNumber(r) : r \in 0..9},
          after \in {AfterThink(round.role, round[TypeKey(round.role)], tiles)} :
          LET d == Decide(round.role, outcome, shape, after, number)
          IN  /\ tiles' = d.tiles
              /\ round' = AfterDecision(round, d.tag)
              /\ history' = Answered(Queried(history, round.role), round.role, outcome, d.tag)
    /\ UNCHANGED <<board_error, shape, last, ncalls, mailbox, request, sweep, registry>>

\* Online think(), up to board_tiles=tiles: without a mailbox sys.exit()
OnlineThinkBegin ==
    /\ round.pc = "query"
    /\ round[TypeKey(round.role)] = "Online"
    /\ TotalQueries(history) < QueryBound
    /\ IF mailbox.registered
       THEN /\ mailbox' = [mailbox EXCEPT !.board_tiles = BoardRef]
            /\ round' = [round EXCEPT !.pc = "raise"]
            /\ history' = Queried(history, round.role)
       ELSE /\ round' = AfterDecision(round, "exit")
            /\ history' = Answered(Queried(history, round.role), round.role,
                                   Exited("round_uuid is not in Server.ONLINE_ROUNDS"),
                                   "exit")
            /\ UNCHANGED mailbox
    /\ UNCHANGED <<boardVars, request, sweep, registry>>

\* ["attacker_wait"]=True, ["defender_wait"]=True
OnlineThinkRaise ==
    /\ round.pc = "raise"
    /\ mailbox' = [mailbox EXCEPT ![WaitKey(round.role)] = TRUE]
    /\ history' = [FlagWritten(history, round.role, mailbox[WaitKey(round.role)], TRUE)
                      EXCEPT !.slot[round.role] = "stale"]
    /\ round' = [round EXCEPT !.pc = "poll"]
    /\ UNCHANGED <<boardVars, request, sweep, registry>>

\* a faulty loop: it does not wait for the flag
OnlinePollDoneAtOnce(wait) == TRUE

\* while ...["attacker_wait"]: sleep(0.1) ends
OnlinePollDone(wait) == ~wait

OnlineThinkPoll ==
    /\ round.pc = "poll"
    /\ OnlinePollDone(mailbox[WaitKey(round.role)])
    /\ round' = [round EXCEPT !.pc = "read"]
    /\ UNCHANGED <<boardVars, mailbox, request, sweep, history, registry>>

\* ["last_update"]=datetime.now(), return ...["attacker_instruction"], and
\* the rest of the pass of the inner loop.  think() returns the dict that is
\* in the slot, and the handler writes that dict in place, through the slot:
\* what the round validates and uses is the content of the slot at a moment
\* after the wait, which is the moment of this step
OnlineThinkEnd ==
    /\ round.pc = "read"
    /\ \E number \in {PlaceNumber(r) : r \in 0..9} :
          LET outcome == Returned(mailbox[InstructionKey(round.role)])
              d == Decide(round.role, outcome, shape, tiles, number)
          IN  /\ tiles' = d.tiles
              /\ round' = AfterDecision(round, d.tag)
              /\ history' = Answered(history, round.role, outcome, d.tag)
    /\ mailbox' = [mailbox EXCEPT !.last_update = 0]
    /\ UNCHANGED <<board_error, shape, last, ncalls, request, sweep, registry>>

\* round_score=self.get_score(board.get_tiles()), return round_score
RoundScore ==
    /\ round.pc = "score"
    /\ round' = [round EXCEPT !.pc = "returned", !.round_score = PyInt(get_score(tiles, 0))]
    /\ UNCHANGED <<boardVars, mailbox, request, sweep, history, registry>>

\* ONLINE_ROUNDS[round_uuid]["round_score"]=...start(), the end of the thread
RoundPublish ==
    /\ round.pc = "returned"
    /\ mailbox.registered
    /\ mailbox' = [mailbox EXCEPT !.round_score = round.round_score]
    /\ round' = [round EXCEPT !.pc = "done"]
    /\ UNCHANGED <<boardVars, request, sweep, history, registry>>

----------------------------------------------------------------------------
(* The request handler of the web server *)

\* a faulty clearing: the flag is written True
ClearedWaitRaised == TRUE

\* the False of ...["attacker_wait"]=False and ...["defender_wait"]=False
ClearedWait == FALSE

\* the instruction in the slot after a write of the handler: written in
\* full ("complete") or in part ("partial") while the flag of the query it
\* answers was up, or not ("late")
SlotWritten(h, role, clean, finished) ==
    [h EXCEPT !.slot[role] = IF ~clean THEN "late"
                             ELSE IF finished THEN "complete" ELSE "partial"]

StillClean(role) ==
    /\ request.clean
    /\ mailbox[WaitKey(role)]
    /\ history.queries[role] = request.query

\* a request with display: last_visit=datetime.now()
Display ==
    /\ request.pc = "idle"
    /\ mailbox.registered
    /\ mailbox' = [mailbox EXCEPT !.last_visit = 0]
    /\ UNCHANGED <<boardVars, round, request, sweep, history, registry>>

\* a faulty page request: the role stays open
ClaimedRoleKept(unoccupied_role, role) == unoccupied_role

\* if ...["unoccupied_role"]==role: ...["unoccupied_role"]=""
ClaimedRole(unoccupied_role, role) ==
    IF unoccupied_role = role THEN "" ELSE unoccupied_role

\* a page request with the query string <role>&<round_uuid> of a round in
\* ONLINE_ROUNDS: the role is taken when it is the one that is open
Claim ==
    /\ request.pc = "idle"
    /\ mailbox.registered
    /\ \E role \in RoleNames :
          /\ mailbox' = [mailbox EXCEPT !.unoccupied_role = ClaimedRole(@, role)]
          /\ history' = [history EXCEPT !.claimed = @ \/ mailbox.unoccupied_role = role]
    /\ UNCHANGED <<boardVars, round, request, sweep, registry>>

\* (datetime.now()-...["last_visit"]).seconds<2
Recent(age) == age < RecentSeconds

\* the rounds that get_an_unoccupied_game may answer with: the entries whose
\* unoccupied_role is not "" and whose last_visit is recent; an entry with
\* the key "thread" alone raises KeyError
Unoccupied ==
    IF registry.unfilled > 0 THEN {"fault"}
    ELSE LET this == IF /\ mailbox.registered
                        /\ mailbox.unoccupied_role # ""
                        /\ Recent(mailbox.last_visit)
                     THEN {"this"} ELSE {}
             others == IF registry.filled > 0 THEN {"other"} ELSE {}
         IN  IF this = {} THEN others \cup {"null"} ELSE this \cup others

\* a request with get_an_unoccupied_game, up to random.choice
GetUnoccupied ==
    /\ request.pc = "idle"
    /\ \E answer \in Unoccupied :
          registry' = [registry EXCEPT !.unoccupied = answer]
    /\ request' = [IdleRequest EXCEPT !.pc = "unoccupied"]
    /\ UNCHANGED <<boardVars, round, mailbox, sweep, history>>

\* the answer is sent
HandlerUnoccupied ==
    /\ request.pc = "unoccupied"
    /\ request' = IdleRequest
    /\ registry' = [registry EXCEPT !.unoccupied = "none"]
    /\ UNCHANGED <<boardVars, round, mailbox, sweep, history>>

\* a faulty test: the handler accepts every submission
SubmitAcceptedAlways(wait) == TRUE

\* if ...["attacker_wait"]:, if ...["defender_wait"]:
SubmitAccepted(wait) == wait

\* a request with attack or defend, up to the test of the wait flag
Submit ==
    /\ request.pc = "idle"
    /\ mailbox.registered
    /\ \E role \in {"attacker", "defender"} :
          IF SubmitAccepted(mailbox[WaitKey(role)])
          THEN \E in \in SubmitInputs(role) :
                  request' = [pc |-> "create", role |-> role, giveup |-> in.giveup,
                              args |-> in.args, index |-> 1,
                              query |-> history.queries[role], clean |-> TRUE]
          ELSE request' = [IdleRequest EXCEPT !.pc = "refuse", !.role = role]
    /\ history' = [history EXCEPT !.accepted = @ \/ request'.pc = "create"]
    /\ UNCHANGED <<boardVars, round, mailbox, sweep, registry>>

\* else: response_body["message"]="Attack is not possible now" ("Defend is
\* not possible now"), and the response
HandlerRefuse ==
    /\ request.pc = "refuse"
    /\ request' = IdleRequest
    /\ UNCHANGED <<boardVars, round, mailbox, sweep, history, registry>>

\* ...["attacker_instruction"]={"keepgoing":True,"location":None}
HandlerCreate ==
    /\ request.pc = "create"
    /\ mailbox.registered
    /\ LET role == request.role
           clean == StillClean(role)
           alone == role = "defender" /\ ~request.giveup /\ Len(request.args) # 2
       IN  /\ mailbox' = [mailbox EXCEPT ![InstructionKey(role)] =
                             IF role = "attacker" THEN PlaceInstruction(TRUE, PyNone)
                             ELSE MoveInstruction(TRUE, PyNone, PyNone)]
           /\ history' = SlotWritten(history, role, clean, alone)
           /\ request' = [request EXCEPT
                             !.clean = clean,
                             !.pc = IF request.giveup THEN "giveup"
                                    ELSE IF role = "attacker" THEN "location"
                                    ELSE IF alone THEN "clear" ELSE "dimension"]
    /\ UNCHANGED <<boardVars, round, sweep, registry>>

\* ...["attacker_instruction"]["location"]=[]
HandlerLocation ==
    /\ request.pc = "location"
    /\ mailbox.registered
    /\ LET clean == StillClean("attacker") IN
       /\ mailbox' = [mailbox EXCEPT !.attacker_instruction.d.location = PyList(<<>>)]
       /\ history' = SlotWritten(history, "attacker", clean, FALSE)
       /\ request' = [request EXCEPT !.clean = clean, !.pc = "append"]
    /\ UNCHANGED <<boardVars, round, sweep, registry>>

\* ...["attacker_instruction"]["location"].append(...): on the None of an
\* instruction written in between, the handler ends with an AttributeError
HandlerAppend ==
    /\ request.pc = "append"
    /\ mailbox.registered
    /\ LET clean == StillClean("attacker")
           last_one == request.index = Len(request.args)
       IN  IF IsList(mailbox.attacker_instruction.d.location)
           THEN /\ mailbox' = [mailbox EXCEPT !.attacker_instruction.d.location.l =
                                  Append(@, PyInt(request.args[request.index]))]
                /\ history' = SlotWritten(history, "attacker", clean, last_one)
                /\ request' = [request EXCEPT !.clean = clean, !.index = @ + 1,
                                              !.pc = IF last_one THEN "clear" ELSE "append"]
           ELSE /\ request' = IdleRequest
                /\ UNCHANGED <<mailbox, history>>
    /\ UNCHANGED <<boardVars, round, sweep, registry>>

\* ...["defender_instruction"]["dimension"]=-1 if not ....isnumeric() else int(...)
HandlerDimension ==
    /\ request.pc = "dimension"
    /\ mailbox.registered
    /\ LET clean == StillClean("defender") IN
       /\ mailbox' = [mailbox EXCEPT !.defender_instruction.d.dimension =
                         PyInt(request.args[1])]
       /\ history' = SlotWritten(history, "defender", clean, FALSE)
       /\ request' = [request EXCEPT !.clean = clean, !.pc = "direction"]
    /\ UNCHANGED <<boardVars, round, sweep, registry>>

\* ...["defender_instruction"]["direction"]=0 if ... not in ("-1","1") else int(...)
HandlerDirection ==
    /\ request.pc = "direction"
    /\ mailbox.registered
    /\ LET clean == StillClean("defender") IN
       /\ mailbox' = [mailbox EXCEPT !.defender_instruction.d.direction =
                         PyInt(request.args[2])]
       /\ history' = SlotWritten(history, "defender", clean, TRUE)
       /\ request' = [request EXCEPT !.clean = clean, !.pc = "clear"]
    /\ UNCHANGED <<boardVars, round, sweep, registry>>

\* ...["attacker_instruction"]["keepgoing"]=False (parameter "giveup")
HandlerGiveUp ==
    /\ request.pc = "giveup"
    /\ mailbox.registered
    /\ LET role == request.role
           clean == StillClean(role)
       IN  /\ mailbox' = [mailbox EXCEPT ![InstructionKey(role)].d.keepgoing = PyBool(FALSE)]
           /\ history' = SlotWritten(history, role, clean, TRUE)
           /\ request' = [request EXCEPT !.clean = clean, !.pc = "clear"]
    /\ UNCHANGED <<boardVars, round, sweep, registry>>

\* ...["attacker_wait"]=False, ...["defender_wait"]=False, and the response
HandlerClear ==
    /\ request.pc = "clear"
    /\ mailbox.registered
    /\ mailbox' = [mailbox EXCEPT ![WaitKey(request.role)] = ClearedWait]
    /\ history' = FlagWritten(history, request.role, mailbox[WaitKey(request.role)], ClearedWait)
    /\ request' = IdleRequest
    /\ UNCHANGED <<boardVars, round, sweep, registry>>

\* the entry was deleted under a request: KeyError, the request ends
HandlerFault ==
    /\ request.pc \notin {"idle", "refuse", "unoccupied"}
    /\ ~mailbox.registered
    /\ request' = IdleRequest
    /\ UNCHANGED <<boardVars, round, mailbox, sweep, history, registry>>

----------------------------------------------------------------------------
(* Server.__clean_online_rounds, and the time that passes *)

\* a faulty ending: the instruction written lets the round go on
ForceEndKeepsGoing(role) ==
    IF role = "attacker" THEN PlaceInstruction(TRUE, PyNone)
    ELSE MoveInstruction(TRUE, PyNone, PyNone)

\* {"keepgoing":False,"location":None} and
\* {"keepgoing":False,"dimension":None,"direction":None}
ForceEnd(role) ==
    IF role = "attacker" THEN PlaceInstruction(FALSE, PyNone)
    ELSE MoveInstruction(FALSE, PyNone, PyNone)

\* the two tests of the loop over ONLINE_ROUNDS, after sleep(10)
SweepScan ==
    /\ sweep.pc = "sleep"
    /\ mailbox.registered
    /\ IF /\ ~Alive(round)
          /\ mailbox.last_visit > DeadRoundSeconds
          /\ mailbox.last_update > DeadRoundSeconds
       THEN sweep' = [pc |-> "delete"]
       ELSE /\ mailbox.last_visit > PendingRoundSeconds
            /\ mailbox.last_update > PendingRoundSeconds
            /\ sweep' = [pc |-> "attacker_instruction"]
    /\ UNCHANGED <<boardVars, round, mailbox, request, history, registry>>

\* ...["attacker_instruction"]={"keepgoing":False,"location":None}
SweepAttackerInstruction ==
    /\ sweep.pc = "attacker_instruction"
    /\ mailbox' = [mailbox EXCEPT !.attacker_instruction = ForceEnd("attacker")]
    /\ history' = SlotWritten(history, "attacker", mailbox.attacker_wait, TRUE)
    /\ sweep' = [pc |-> "attacker_wait"]
    /\ UNCHANGED <<boardVars, round, request, registry>>

\* ...["attacker_wait"]=False
SweepAttackerWait ==
    /\ sweep.pc = "attacker_wait"
    /\ mailbox' = [mailbox EXCEPT !.attacker_wait = ClearedWait]
    /\ history' = [FlagWritten(history, "attacker", mailbox.attacker_wait, ClearedWait)
                      EXCEPT !.forced.attacker = @ \/ mailbox.attacker_wait]
    /\ sweep' = [pc |-> "defender_instruction"]
    /\ UNCHANGED <<boardVars, round, request, registry>>

\* a faulty ending: the board snapshot of the entry is emptied as well
SweepDefenderInstructionAndSnapshot ==
    /\ sweep.pc = "defender_instruction"
    /\ mailbox' = [mailbox EXCEPT !.defender_instruction = ForceEnd("defender"),
                                  !.board_tiles = PyList(<<>>)]
    /\ history' = SlotWritten(history, "defender", mailbox.defender_wait, TRUE)
    /\ sweep' = [pc |-> "defender_wait"]
    /\ UNCHANGED <<boardVars, round, request, registry>>

\* ...["defender_instruction"]={"keepgoing":False,"dimension":None,"direction":None}
SweepDefenderInstruction ==
    /\ sweep.pc = "defender_instruction"
    /\ mailbox' = [mailbox EXCEPT !.defender_instruction = ForceEnd("defender")]
    /\ history' = SlotWritten(history, "defender", mailbox.defender_wait, TRUE)
    /\ sweep' = [pc |-> "defender_wait"]
    /\ UNCHANGED <<boardVars, round, request, registry>>

\* ...["defender_wait"]=False
SweepDefenderWait ==
    /\ sweep.pc = "defender_wait"
    /\ mailbox' = [mailbox EXCEPT !.defender_wait = ClearedWait]
    /\ history' = [FlagWritten(history, "defender", mailbox.defender_wait, ClearedWait)
                      EXCEPT !.forced.defender = @ \/ mailbox.defender_wait]
    /\ sweep' = SleepingSweep
    /\ UNCHANGED <<boardVars, round, request, registry>>

\* del ONLINE_ROUNDS[round_uuid]["round"], del ONLINE_ROUNDS[round_uuid]
SweepDelete ==
    /\ sweep.pc = "delete"
    /\ mailbox' = NoMailbox
    /\ sweep' = SleepingSweep
    /\ UNCHANGED <<boardVars, round, request, history, registry>>

\* an age after d more seconds: 0 (just written), more than 30 seconds, more
\* than 300 seconds
Older(age, d) ==
    IF age + d > PendingRoundSeconds THEN PendingRoundSeconds + 1
    ELSE DeadRoundSeconds + 1

\* time passes: a little more than 30 seconds, or a little more than 300
Tick ==
    /\ mailbox.registered
    /\ \E d \in {DeadRoundSeconds + 1, PendingRoundSeconds + 1} :
          mailbox' = [mailbox EXCEPT !.last_visit = Older(@, d),
                                     !.last_update = Older(@, d)]
    /\ mailbox' # mailbox
    /\ UNCHANGED <<boardVars, round, request, sweep, history, registry>>

RoundNext ==
    \/ RoundStart \/ RoundTurn
    \/ OnlineThinkBegin \/ OnlineThinkRaise \/ OnlineThinkPoll \/ OnlineThinkEnd
    \/ RoundScore \/ RoundPublish
    \/ Display \/ Submit \/ HandlerRefuse
    \/ HandlerCreate \/ HandlerLocation \/ HandlerAppend
    \/ HandlerDimension \/ HandlerDirection \/ HandlerGiveUp \/ HandlerClear
    \/ HandlerFault
    \/ SweepScan \/ SweepAttackerInstruction \/ SweepAttackerWait
    \/ SweepDefenderInstruction \/ SweepDefenderWait \/ SweepDelete
    \/ Tick

RoundSpec == RoundInit /\ [][RoundNext]_vars

----------------------------------------------------------------------------
(* The start requests, the other entries of ONLINE_ROUNDS, and the server *)

\* len(cls.ONLINE_ROUNDS)
Entries ==
    (IF mailbox.registered THEN 1 ELSE 0) + registry.filled + registry.unfilled

\* a faulty test: one entry more than the ceiling is let in
AdmissionFullAbove(n) == n > AdmissionCeiling

\* len(cls.ONLINE_ROUNDS)>=500
AdmissionFull(n) == n >= AdmissionCeiling

\* the board_shape parameters of the start requests the model draws
StartShapeInputs == {"[4,4]", "[2]", "x"}

\* json.loads(text), for the texts the model draws: the value, or the
\* JSONDecodeError
json_loads(text) ==
    IF text = "[4,4]" THEN Returned(PyInts(<<4, 4>>))
    ELSE IF text = "[2]" THEN Returned(PyInts(<<2>>))
    ELSE Raised("Expecting value: line 1 column 1 (char 0)")

\* a request with start=new for another round.  With 500 entries the answer
\* is uuid None; else ONLINE_ROUNDS[round_uuid]={}, the thread of
\* online_round() is stored under "thread" and started, and the answer is
\* the new uuid.  online_round() builds the Round first: when json.loads in
\* Round.__init__ raises, the thread ends there and the entry keeps the key
\* "thread" alone
StartRequest ==
    /\ request.pc = "idle"
    /\ IF AdmissionFull(Entries)
       THEN registry' = [registry EXCEPT !.uuid = "null"]
       ELSE \E board_shape \in StartShapeInputs :
               IF json_loads(board_shape).kind = "return"
               THEN registry' = [registry EXCEPT !.filled = @ + 1, !.uuid = "uuid4"]
               ELSE registry' = [registry EXCEPT !.unfilled = @ + 1, !.uuid = "uuid4"]
    /\ UNCHANGED <<boardVars, round, mailbox, request, sweep, history>>

\* the loop over ONLINE_ROUNDS comes to an entry with the key "thread"
\* alone: ...["thread"].is_alive() is False, ...["last_visit"] raises
\* KeyError, and the thread of __clean_online_rounds ends
SweepFault ==
    /\ sweep.pc = "sleep"
    /\ registry.unfilled > 0
    /\ sweep' = [pc |-> "dead"]
    /\ UNCHANGED <<boardVars, round, mailbox, request, history, registry>>

\* the loop over rounds_to_be_deleted, for another round that has ended and
\* was left alone for more than 30 seconds; the loop is not reached when an
\* entry with the key "thread" alone is in ONLINE_ROUNDS
SweepDeleteOther ==
    /\ sweep.pc = "sleep"
    /\ registry.unfilled = 0
    /\ registry.filled > 0
    /\ registry' = [registry EXCEPT !.filled = @ - 1]
    /\ UNCHANGED <<boardVars, round, mailbox, request, sweep, history>>

\* the registry alone: start requests and the cleaning thread
RegistryInit ==
    /\ round = NoRound
    /\ mailbox = NoMailbox
    /\ request = IdleRequest
    /\ sweep = SleepingSweep
    /\ history = NoHistory
    /\ registry = NoRegistry
    /\ board_error = ""
    /\ shape = <<>>
    /\ tiles = PyList(<<>>)
    /\ last = Call("new", PyOther, 0, <<>>, FALSE, PyList(<<>>), <<>>, <<>>, <<>>)
    /\ ncalls = 0

RegistryNext ==
    \/ StartRequest \/ SweepFault \/ SweepDeleteOther
    \/ GetUnoccupied \/ HandlerUnoccupied

RegistrySpec == RegistryInit /\ [][RegistryNext]_vars

\* a served round with an Online defender among many running rounds: the
\* registry is two entries short of the ceiling
ServerInit ==
    /\ \E attacker_type \in {"Online", "Random"} :
          LET kinds == ServerKinds(attacker_type, "Online") IN
          /\ round = NewRound(kinds[1], kinds[2], DefaultShape, PyList(PyInts(<<0, 8>>)))
          /\ mailbox = NewMailbox(kinds[1], kinds[2])
    /\ request = IdleRequest
    /\ sweep = SleepingSweep
    /\ history = NoHistory
    /\ registry = NewRegistry(AdmissionCeiling - 2, 0)
    /\ board_error = ""
    /\ shape = <<>>
    /\ tiles = PyList(<<>>)
    /\ last = Call("new", PyOther, 0, <<>>, FALSE, PyList(<<>>), <<>>, <<>>, <<>>)
    /\ ncalls = 0

\* the statements of the thread of the round
RoundThread ==
    \/ RoundStart \/ RoundTurn
    \/ OnlineThinkBegin \/ OnlineThinkRaise \/ OnlineThinkPoll \/ OnlineThinkEnd
    \/ RoundScore \/ RoundPublish

\* the statements of the thread of __clean_online_rounds
SweepThread ==
    \/ SweepScan \/ SweepAttackerInstruction \/ SweepAttackerWait
    \/ SweepDefenderInstruction \/ SweepDefenderWait \/ SweepDelete
    \/ SweepFault

\* the server while nobody plays: rounds are started and displayed, no
\* attack and no defend is sent
ServerNext == RoundThread \/ SweepThread \/ Tick \/ Display \/ StartRequest

\* the threads are daemon threads of one interpreter: each of them gets to
\* run its next statement
ServerSpec ==
    /\ ServerInit
    /\ [][ServerNext]_vars
    /\ WF_vars(RoundThread)
    /\ WF_vars(SweepThread)

\* the unoccupied_role parameters of the start requests the model draws
AskedRoleInputs == {"", "Attacker", "Defender", "Foo"}

\* the board_tiles parameters of these start requests: a row with an 8, a
\* row with a 1
InviteTilesInputs == {PyList(PyInts(<<0, 8>>)), PyList(PyInts(<<1, 0>>))}

\* a served round that may wait for a second player: the kinds, the
\* unoccupied_role and the board_tiles the start request asked for
InviteInit ==
    /\ \E attacker_type \in {"Online", "Random"}, defender_type \in {"Online", "Manual"},
          asked \in AskedRoleInputs, board_tiles \in InviteTilesInputs :
          LET kinds == ServerKinds(attacker_type, defender_type) IN
          /\ round = NewRound(kinds[1], kinds[2], DefaultShape, board_tiles)
          /\ mailbox = [NewMailbox(kinds[1], kinds[2]) EXCEPT
                           !.unoccupied_role = UnoccupiedRole(kinds[1], kinds[2], asked)]
          /\ history = [NoHistory EXCEPT !.asked_role = asked]
    /\ request = IdleRequest
    /\ sweep = SleepingSweep
    /\ registry = NoRegistry
    /\ board_error = ""
    /\ shape = <<>>
    /\ tiles = PyList(<<>>)
    /\ last = Call("new", PyOther, 0, <<>>, FALSE, PyList(<<>>), <<>>, <<>>, <<>>)
    /\ ncalls = 0

\* the round, the cleaning thread, and the requests that display the round,
\* take its open role and ask for an unoccupied game
InviteNext ==
    \/ RoundThread
    \/ SweepScan \/ SweepAttackerInstruction \/ SweepAttackerWait
    \/ SweepDefenderInstruction \/ SweepDefenderWait \/ SweepDelete
    \/ Tick \/ Display \/ Claim \/ GetUnoccupied \/ HandlerUnoccupied

InviteSpec == InviteInit /\ [][InviteNext]_vars

----------------------------------------------------------------------------
(* The rounds of two providers that decide by themselves *)

AutoKinds == {"Random", "Strategy"}

\* a shape whose empty board is written with more than MaxTilesStrLen characters
WideShape == PyInts(<<8, 8>>)

\* the boards of the rounds that show the providers: every regular layout,
\* the shapes of at most MaxCells cells, the wide shape
ProviderBoardInputs ==
    {<<DefaultShape, load_tiles>> : load_tiles \in RegularLayouts}
        \cup {<<sh, PyList(<<>>)>> :
                 sh \in {t \in ShapeInputs :
                            ShapeError(t) = "" /\ ProdSeq(IntsOf(t)) <= MaxCells}}
        \cup {<<WideShape, PyList(<<>>)>>}

\* two providers of one kind on each of the boards
ProviderInit ==
    /\ \E kind \in AutoKinds, in \in ProviderBoardInputs :
          round = NewRound(kind, kind, in[1], in[2])
    /\ mailbox = NoMailbox
    /\ request = IdleRequest
    /\ sweep = SleepingSweep
    /\ history = NoHistory
    /\ registry = NoRegistry
    /\ board_error = ""
    /\ shape = <<>>
    /\ tiles = PyList(<<>>)
    /\ last = Call("new", PyOther, 0, <<>>, FALSE, PyList(<<>>), <<>>, <<>>, <<>>)
    /\ ncalls = 0

\* Round.start without a server: the first MaxQueries calls of think()
ProviderNext == RoundStart \/ RoundTurn \/ RoundScore

ProviderSpec == ProviderInit /\ [][ProviderNext]_vars

\* the shapes of the rounds followed to their end: the shapes of at most
\* MaxCells cells, the wide shape
AutoShapeInputs ==
    {sh \in ShapeInputs : ShapeError(sh) = "" /\ ProdSeq(IntsOf(sh)) <= MaxCells}
        \cup {WideShape}

AutoInit ==
    /\ \E attacker_type \in AutoKinds, defender_type \in AutoKinds,
          board_shape \in AutoShapeInputs :
          round = NewRound(attacker_type, defender_type, board_shape, PyList(<<>>))
    /\ mailbox = NoMailbox
    /\ request = IdleRequest
    /\ sweep = SleepingSweep
    /\ history = NoHistory
    /\ registry = NoRegistry
    /\ board_error = ""
    /\ shape = <<>>
    /\ tiles = PyList(<<>>)
    /\ last = Call("new", PyOther, 0, <<>>, FALSE, PyList(<<>>), <<>>, <<>>, <<>>)
    /\ ncalls = 0

\* one pass of an inner loop of Round.start, as many times as the loop runs:
\* the query, the check of the answer, the mutator; continue after a fault
AutoTurn ==
    /\ round.pc = "query"
    /\ round[TypeKey(round.role)] \in AutoKinds
    /\ \E outcome \in Think(round.role, round[TypeKey(round.role)], shape, tiles),
          number \in {PlaceNumber(r) : r \in 0..9},
          after \in {AfterThink(round.role, round[TypeKey(round.role)], tiles)} :
          LET d == Decide(round.role, outcome, shape, after, number)
          IN  /\ tiles' = d.tiles
              /\ round' = AfterDecision(round, d.tag)
    /\ UNCHANGED <<board_error, shape, last, ncalls, mailbox, request, sweep,
                   history, registry>>

\* Round.start without a server, up to its return
AutoNext == RoundStart \/ AutoTurn \/ RoundScore

AutoSpec == AutoInit /\ [][AutoNext]_vars

----------------------------------------------------------------------------
(* Vocabulary of the properties *)

\* the leaves of a nested list, in depth-first order
RECURSIVE Leaves(_)
RECURSIVE LeavesFrom(_, _)
Leaves(v) == IF IsList(v) THEN LeavesFrom(v.l, 1) ELSE <<v>>
LeavesFrom(s, k) == IF k > Len(s) THEN <<>> ELSE Leaves(s[k]) \o LeavesFrom(s, k + 1)

TileSum(tl) == SumSeq(IntsOf(Leaves(tl)))

\* v is nested exactly d lists deep everywhere, with ints at the bottom
RECURSIVE NestedTo(_, _)
NestedTo(v, d) ==
    IF d = 0 THEN IsInt(v)
    ELSE IsList(v) /\ \A k \in 1..Len(v.l) : NestedTo(v.l[k], d - 1)

\* n is 2^k for some k >= 1
RECURSIVE PowerOfTwo(_)
PowerOfTwo(n) == n >= 2 /\ (n = 2 \/ (n % 2 = 0 /\ PowerOfTwo(n \div 2)))

Reverse(s) == [k \in 1..Len(s) |-> s[Len(s) + 1 - k]]

NonZero(x) == x # 0

\* equal neighbours merged once, scanning from the front
RECURSIVE MergePairs(_)
MergePairs(s) ==
    IF Len(s) < 2 THEN s
    ELSE IF s[1] = s[2] THEN <<2 * s[1]>> \o MergePairs(SubSeq(s, 3, Len(s)))
    ELSE <<s[1]>> \o MergePairs(Tail(s))

\* the reference line operator toward the front of the line
SlideToFront(line) ==
    LET merged == MergePairs(SelectSeq(line, NonZero)) IN
    merged \o [k \in 1..(Len(line) - Len(merged)) |-> 0]

\* the reference line operator: direction -1 moves toward index 0
ReferenceLine(line, direction) ==
    IF direction = -1 THEN SlideToFront(line)
    ELSE Reverse(SlideToFront(Reverse(line)))

\* the line of board tl through coordinate c along axis d (1-based)
LineThrough(tl, sh, d, c) ==
    [k \in 1..sh[d] |-> get_tile(tl, [c EXCEPT ![d] = k - 1]).i]

\* one starting coordinate per line along axis d
LineStarts(sh, d) == {c \in AllCoordinates(sh) : c[d] = 0}

\* no zero cell lies between a nonzero tile and the wall moved toward
NoReachableEmpty(line, direction) ==
    \A a, b \in 1..Len(line) :
        (IF direction = -1 THEN a < b ELSE a > b) /\ line[b] # 0 => line[a] # 0

\* two neighbouring cells hold the same nonzero number
HasEqualNeighbours(line) ==
    \E a \in 1..(Len(line) - 1) : line[a] # 0 /\ line[a] = line[a + 1]

\* the last call was move() with a valid axis and a direction of -1 or +1
LegalMove ==
    /\ last.op = "move"
    /\ IsInt(last.dimension)
    /\ last.dimension.i \in 0..(Len(shape) - 1)
    /\ last.direction \in {-1, 1}

IllegalMove == last.op = "move" /\ ~LegalMove

\* the last call was place() with a coordinate of the board
InBoundsPlace ==
    /\ last.op = "place"
    /\ Len(last.location) = Len(shape)
    /\ \A k \in 1..Len(shape) :
          IsInt(last.location[k]) /\ last.location[k].i \in 0..(shape[k] - 1)

\* the last call was place() with a location of the wrong length or with an
\* int component out of bounds
OutOfBoundsPlace ==
    /\ last.op = "place"
    /\ \/ Len(last.location) # Len(shape)
       \/ \E k \in 1..Len(last.location) :
             /\ IsInt(last.location[k])
             /\ (last.location[k].i < 0 \/ (k <= Len(shape) /\ last.location[k].i >= shape[k]))

Row(s) == PyList(PyInts(s))
Grid(rows) == PyList([k \in 1..Len(rows) |-> Row(rows[k])])

----------------------------------------------------------------------------
(* Properties of Board.move *)

\* C1: within one move() call no cell is the destination of two merges, and
\* the tile a merge produced is not moved or merged again in that call; the
\* line [4,4,4,4] moved with direction -1 becomes [8,8,0,0]
C1_MergeOnce ==
    last.op = "move" =>
        /\ \A a, b \in 1..Len(last.log) :
              a < b /\ last.log[a].kind = "merge" =>
                  /\ last.log[b].to # last.log[a].to
                  /\ last.log[b].from # last.log[a].to
        /\ (last.before = Row(<<4, 4, 4, 4>>) /\ last.direction = -1 /\ LegalMove
                => tiles = Row(<<8, 8, 0, 0>>))

\* the line [4,4,4,4] was moved toward the origin
C1_Witness ==
    /\ LegalMove
    /\ last.before = Row(<<4, 4, 4, 4>>)
    /\ last.direction = -1
    /\ Len(last.blocked) = 2

\* C2: a legal move() transforms every line along the axis exactly as the
\* reference line operator does, each line by itself; [[2,2],[2,2]] with
\* move(0,-1) gives [[4,4],[0,0]] and [[2,2,4,0]] with move(1,-1) gives
\* [[4,4,0,0]], both returning true
C2_MoveIsReferenceLine ==
    LegalMove =>
        /\ \A c \in LineStarts(shape, last.dimension.i + 1) :
              LineThrough(tiles, shape, last.dimension.i + 1, c)
                  = ReferenceLine(LineThrough(last.before, shape, last.dimension.i + 1, c),
                                  last.direction)
        /\ (last.before = Grid(<<<<2, 2>>, <<2, 2>>>>)
                /\ last.dimension.i = 0 /\ last.direction = -1
                => tiles = Grid(<<<<4, 4>>, <<0, 0>>>>) /\ last.ret)
        /\ (last.before = Grid(<<<<2, 2, 4, 0>>>>)
                /\ last.dimension.i = 1 /\ last.direction = -1
                => tiles = Grid(<<<<4, 4, 0, 0>>>>) /\ last.ret)

\* [[2,2],[2,2]] was moved along axis 0 toward the origin
C2_Witness ==
    /\ LegalMove
    /\ last.before = Grid(<<<<2, 2>>, <<2, 2>>>>)
    /\ last.dimension.i = 0 /\ last.direction = -1
    /\ tiles = Grid(<<<<4, 4>>, <<0, 0>>>>)

\* C3: every move() call leaves the sum of all tile values unchanged
C3_MoveKeepsSum ==
    last.op = "move" => TileSum(tiles) = TileSum(last.before)

\* a move that merged two pairs of tiles
C3_Witness ==
    LegalMove /\ Len(last.blocked) >= 2 /\ tiles # last.before

\* C4: move() returns false exactly when the board after the call is the
\* board before it, and true exactly when a relocation or a merge happened
C4_MoveReturn ==
    last.op = "move" =>
        /\ (last.ret = FALSE) <=> (tiles = last.before)
        /\ (last.ret = TRUE) <=> (Len(last.log) > 0)

\* a legal move that slid a tile and merged a pair, and returned true
C4_Witness ==
    /\ LegalMove
    /\ last.ret
    /\ \E a, b \in 1..Len(last.log) :
          last.log[a].kind = "slide" /\ last.log[b].kind = "merge"

\* C5 as stated: a line with no empty cell reachable in the movement
\* direction is left unchanged by move()
C5_Original ==
    LegalMove =>
        \A c \in LineStarts(shape, last.dimension.i + 1) :
            LET before == LineThrough(last.before, shape, last.dimension.i + 1, c) IN
            NoReachableEmpty(before, last.direction)
                => LineThrough(tiles, shape, last.dimension.i + 1, c) = before

\* C5 amended: a line with no empty cell reachable in the movement direction
\* and no two equal neighbouring tiles is left unchanged by move()
C5_Amended ==
    LegalMove =>
        \A c \in LineStarts(shape, last.dimension.i + 1) :
            LET before == LineThrough(last.before, shape, last.dimension.i + 1, c) IN
            NoReachableEmpty(before, last.direction) /\ ~HasEqualNeighbours(before)
                => LineThrough(tiles, shape, last.dimension.i + 1, c) = before

\* a move that changed the board while one of its lines, holding two
\* different tiles packed against the wall, stayed as it was
C5_Witness ==
    /\ LegalMove
    /\ last.ret
    /\ \E c \in LineStarts(shape, last.dimension.i + 1) :
          LET before == LineThrough(last.before, shape, last.dimension.i + 1, c) IN
          /\ NoReachableEmpty(before, last.direction)
          /\ ~HasEqualNeighbours(before)
          /\ Len(SelectSeq(before, NonZero)) >= 2
          /\ LineThrough(tiles, shape, last.dimension.i + 1, c) = before

\* C6: move() with a dimension that is no axis of the board, or a direction
\* other than -1 and +1, returns false and changes no tile
C6_IllegalMoveRejected ==
    IllegalMove => last.ret = FALSE /\ tiles = last.before

\* a move with direction 0 along a valid axis of a board that holds tiles
C6_Witness ==
    /\ IllegalMove
    /\ IsInt(last.dimension) /\ last.dimension.i \in 0..(Len(shape) - 1)
    /\ last.direction = 0
    /\ TileSum(tiles) > 0

----------------------------------------------------------------------------
(* Properties of Board.place *)

\* C7: place() returns false and leaves the tiles as they were when the
\* location has the wrong length, a component is out of bounds (negative
\* included), or the target cell is nonzero
C7_PlaceRejected ==
    (\/ OutOfBoundsPlace
     \/ InBoundsPlace /\ get_tile(last.before, IntsOf(last.location)).i # 0)
        => last.ret = FALSE /\ tiles = last.before

\* on a (2,2) board whose only tile is the one a first place([0,0]) put
\* there, place([0,0]) was called again
C7_Witness ==
    /\ InBoundsPlace
    /\ shape = <<2, 2>>
    /\ last.location = PyInts(<<0, 0>>)
    /\ get_tile(last.before, <<0, 0>>).i \in {2, 4}
    /\ TileSum(last.before) = get_tile(last.before, <<0, 0>>).i
    /\ ncalls = 2
    /\ ~last.ret

\* C8: place() on an in-bounds zero cell returns true, sets that cell to 2
\* or 4, changes no other cell, and so raises the tile sum by 2 or by 4
C8_PlaceSucceeds ==
    InBoundsPlace /\ get_tile(last.before, IntsOf(last.location)).i = 0 =>
        /\ last.ret = TRUE
        /\ get_tile(tiles, IntsOf(last.location)).i \in {2, 4}
        /\ \A c \in AllCoordinates(shape) :
              c # IntsOf(last.location) => get_tile(tiles, c) = get_tile(last.before, c)
        /\ TileSum(tiles) - TileSum(last.before) \in {2, 4}

\* a 4 was placed on a board that already held tiles
C8_Witness ==
    /\ InBoundsPlace
    /\ last.ret
    /\ get_tile(last.before, IntsOf(last.location)).i = 0
    /\ get_tile(tiles, IntsOf(last.location)).i = 4
    /\ TileSum(last.before) > 0

----------------------------------------------------------------------------
(* Properties of the board's shape and tiles *)

\* C9: every board the constructor accepts has a shape of rank 1 to 4 with
\* every dimension in [2,10], and place() and move() never change the shape
C9_ShapeInRange ==
    board_error = "" =>
        /\ Len(shape) \in 1..4
        /\ \A k \in 1..Len(shape) : shape[k] \in 2..10
        /\ shape = last.shape_before

\* C10: in every state of an accepted board every leaf tile is 0 or 2^k with
\* k >= 1, and the tiles are nested as deep as the shape is long
C10_TilesWellFormed ==
    board_error = "" =>
        /\ \A k \in 1..Len(Leaves(tiles)) :
              IsInt(Leaves(tiles)[k])
                  /\ (Leaves(tiles)[k].i = 0 \/ PowerOfTwo(Leaves(tiles)[k].i))
        /\ NestedTo(tiles, Len(shape))

----------------------------------------------------------------------------
(* Vocabulary of the properties of the Round *)

\* the step is a call of think() of the role
QueryStep(role) == history'.queries[role] = history.queries[role] + 1

\* the step deals with an answer of the role whose turn it is; the tag of
\* the answer is round'.outcome
AnswerStep == history'.answers = history.answers + 1

\* the step takes the instruction of an Online provider out of its slot
ConsumeStep == round.pc = "read" /\ AnswerStep

\* the round is in state ENDED: a provider gave up
Ended(r) == r.pc \in {"score", "returned", "done"}

\* start() has returned a score
HasReturned(r) == r.pc \in {"returned", "done"}

\* the kinds of provider there are
KnownKinds == {"Random", "Strategy", "Manual", "Online"}

\* the shape of a regular nested list; <<0>> in it where siblings differ
RECURSIVE ShapeOf(_)
ShapeOf(v) ==
    IF ~IsList(v) THEN <<>>
    ELSE IF Len(v.l) = 0 THEN <<0>>
    ELSE IF \A k \in 1..Len(v.l) : ShapeOf(v.l[k]) = ShapeOf(v.l[1])
    THEN <<Len(v.l)>> \o ShapeOf(v.l[1])
    ELSE <<0>>

\* a shape of rank 1 to 4 with every dimension in [2,10]
ShapeInRange(sh) == Len(sh) \in 1..4 /\ \A k \in 1..Len(sh) : sh[k] \in 2..10

\* the board asked for is one the specification allows: the layout when one
\* is given (regular, of a shape in range, leaves 0 or 2^k), else the shape
ValidBoardRequest(r) ==
    IF Len(r.board_tiles.l) > 0
    THEN /\ ShapeInRange(ShapeOf(r.board_tiles))
         /\ \A k \in 1..Len(Leaves(r.board_tiles)) :
               /\ IsInt(Leaves(r.board_tiles)[k])
               /\ (Leaves(r.board_tiles)[k].i = 0 \/ PowerOfTwo(Leaves(r.board_tiles)[k].i))
    ELSE /\ \A k \in 1..Len(r.board_shape) : IsInt(r.board_shape[k])
         /\ ShapeInRange(IntsOf(r.board_shape))

\* a round that must not start
InvalidRound ==
    \/ round.attacker_type \notin KnownKinds
    \/ round.defender_type \notin KnownKinds
    \/ ~ValidBoardRequest(round)

\* k with 2^k = n, for n a power of two
Exponent(n) == CHOOSE k \in 0..30 : 2 ^ k = n

\* T*(log2(T)-1), 0 for the empty cell
TileValue(T) == IF T = 0 THEN 0 ELSE T * (Exponent(T) - 1)

ReferenceScore(tl) ==
    SumSeq([k \in 1..Len(Leaves(tl)) |-> TileValue(Leaves(tl)[k].i)])

----------------------------------------------------------------------------
(* Properties of Round.start *)

\* C11: the successful mutations of a round alternate place, move, place,
\* ..., beginning with a place: the attacker is queried and a place succeeds
\* only when as many moves as places have succeeded, the defender is queried
\* and a move succeeds only when one more place than moves has succeeded
C11_Alternation ==
    [][/\ (QueryStep("attacker") => history.places = history.moves)
       /\ (QueryStep("defender") => history.places = history.moves + 1)
       /\ (history'.places # history.places
              => history.places = history.moves /\ history'.places = history.places + 1)
       /\ (history'.moves # history.moves
              => history.places = history.moves + 1 /\ history'.moves = history.moves + 1)
      ]_vars

\* a place, a move and a second place have succeeded
C11_Witness == history.places = 2 /\ history.moves = 1

\* C12: when the answer of a provider is malformed or the mutator rejects it,
\* the board and the turn stay as they were and the same role is queried
\* again; the round neither aborts nor ends
C12_RetrySameRole ==
    [][AnswerStep /\ round'.outcome \in {"malformed", "rejected"}
          => /\ tiles' = tiles
             /\ history'.places = history.places
             /\ history'.moves = history.moves
             /\ round'.role = round.role
             /\ round'.pc = "query"
      ]_vars

\* an Online role is being queried again after its malformed answer
C12_Witness == round.outcome = "malformed" /\ round.pc = "poll"

\* C13: a well-formed answer with keepgoing false, of either role, ends the
\* round: from then on no provider is queried, the board is not written, and
\* start() returns the score of the board as it stood at the answer
C13_GiveUpEnds ==
    [][/\ (AnswerStep /\ round'.outcome = "giveup" => Ended(round') /\ tiles' = tiles)
       /\ (Ended(round)
              => /\ Ended(round')
                 /\ tiles' = tiles
                 /\ history'.queries = history.queries
                 /\ history'.answers = history.answers)
       /\ (round.pc = "score" /\ round'.pc # "score"
              => round'.round_score = PyInt(get_score(tiles, 0)))
      ]_vars

\* start() has returned after the defender gave up
C13_Witness ==
    /\ round.pc = "returned"
    /\ round.role = "defender"
    /\ round.outcome = "giveup"
    /\ history.places >= 1

\* C14: in a round of two providers that are not Online, whose every call of
\* think() returned an answer and none with keepgoing true, the first answer
\* ends the round: the attacker was queried once, the defender never, the
\* board is the initial board, and the score returned is that of the initial
\* board
C14_EndsInFirstTurn ==
    (/\ round.attacker_type # "Online"
     /\ round.defender_type # "Online"
     /\ history.answers >= 1
     /\ ~history.kept_going
     /\ ~history.raised)
        => /\ Ended(round)
           /\ history.queries = [attacker |-> 1, defender |-> 0]
           /\ history.places = 0 /\ history.moves = 0
           /\ tiles = history.start_tiles
           /\ (HasReturned(round)
                  => round.round_score = PyInt(get_score(history.start_tiles, 0)))

\* start() has returned after the one answer of a Manual attacker, on a
\* board with a free cell
C14_Witness ==
    /\ round.pc = "returned"
    /\ round.attacker_type = "Manual"
    /\ round.defender_type = "Random"
    /\ history.answers = 1
    /\ ~history.kept_going
    /\ \E k \in 1..Len(Leaves(tiles)) : Leaves(tiles)[k].i = 0

\* C15: when think() fails with sys.exit (no entry in ONLINE_ROUNDS) or with
\* any other exception of the provider, the round aborts at once: no further
\* query, no further write of the board, no score
C15_FaultAborts ==
    [][AnswerStep /\ round'.outcome \in {"exit", "raise"}
          => round'.pc = "aborted" /\ tiles' = tiles
      ]_vars

\* C16: a round with an unknown kind of attacker or defender, or with a
\* board that is not valid, never queries a provider, never raises a wait
\* flag, never writes the board and never has a score
C16_InvalidRoundAborts ==
    InvalidRound
        => /\ history.queries = [attacker |-> 0, defender |-> 0]
           /\ ~mailbox.attacker_wait /\ ~mailbox.defender_wait
           /\ history.places = 0 /\ history.moves = 0
           /\ round.round_score = PyNone
           /\ mailbox.round_score = PyNone
           /\ round.pc \in {"new", "aborted"}

\* C17: the score start() returns is the sum over the tiles T of the board of
\* 0 for T = 0 and T*(log2(T)-1) otherwise; a board whose only tile is an 8
\* scores 16
C17_Score ==
    HasReturned(round)
        => /\ round.round_score = PyInt(ReferenceScore(tiles))
           /\ (tiles = Row(<<0, 8>>) => round.round_score = PyInt(16))

\* start() has returned on the board [0, 8]
C17_Witness == round.pc = "returned" /\ tiles = Row(<<0, 8>>)

----------------------------------------------------------------------------
(* Properties of the mailbox *)

\* C18: in every state, whatever the order of the steps of the round, of the
\* request handler and of the cleaning thread, at most one of attacker_wait
\* and defender_wait is true
C18_OneWaitFlag == ~(mailbox.attacker_wait /\ mailbox.defender_wait)

\* the defender is waited for while a request of the attacker is still under
\* way
C18_Witness ==
    /\ mailbox.defender_wait
    /\ request.pc # "idle"
    /\ request.role = "attacker"

\* C19: every instruction the round takes from the slot of an Online
\* provider was written in full while the wait flag of that query was up
C19_ConsumesComplete ==
    [][ConsumeStep => history.slot[round.role] = "complete"]_vars

\* C20 as stated: in one turn of an Online role, from the moment the turn
\* passes to it until it passes on or the round ends, the wait flag of the
\* role goes up once and down once
C20_OncePerTurn ==
    [][ConsumeStep /\ (round'.role # round.role \/ ~Alive(round') \/ Ended(round'))
          => /\ history.turn_rises[round.role] = 1
             /\ history.turn_falls[round.role] = 1
      ]_vars

\* C20 amended: in one call of think() of an Online role the wait flag of
\* the role goes up once and down once, and it is down when the instruction
\* is taken; a turn has one such call for every attempt
C20_OncePerQuery ==
    [][ConsumeStep
          => /\ history.rises[round.role] = 1
             /\ history.falls[round.role] = 1
             /\ ~mailbox[WaitKey(round.role)]
      ]_vars

\* the second call of think() in one turn of an Online role has ended its
\* wait
C20_Witness ==
    /\ round.pc = "read"
    /\ history.turn_rises[round.role] = 2
    /\ history.turn_falls[round.role] = 2

----------------------------------------------------------------------------
(* Vocabulary of the properties of the server *)

\* the thread a step belongs to: every statement of Round.start and of
\* think() moves round.pc, every statement of an attack or defend request
\* moves the request, every statement of the cleaning thread moves sweep
ByRound == round' # round

ByHandler == request' # request

BySweep == sweep' # sweep

Roles == {"attacker", "defender"}

\* what board_tiles of the entry shows: the list the round last stored
\* there, which is the list of the board itself
Snapshot == IF mailbox.board_tiles = BoardRef THEN tiles ELSE mailbox.board_tiles

\* the entry of the round is in ONLINE_ROUNDS before and after the step
EntryStays == mailbox.registered /\ mailbox'.registered

\* the score a display request answers with: .get("round_score",-1)
ShownScore == IF mailbox.round_score = PyNone THEN -1 ELSE mailbox.round_score.i

\* the round has been inactive for longer than the long window
Pending ==
    /\ mailbox.last_visit > PendingRoundSeconds
    /\ mailbox.last_update > PendingRoundSeconds

\* the instruction the cleaning thread writes to end a round
GiveUpOf(role) ==
    IF role = "attacker" THEN [d |-> [keepgoing |-> [b |-> FALSE], location |-> PyNone]]
    ELSE [d |-> [keepgoing |-> [b |-> FALSE], dimension |-> PyNone,
                 direction |-> PyNone]]

\* the round stands in the wait loop of think() of the role, the flag up
Blocked(role) ==
    /\ round.pc = "poll"
    /\ round.role = role
    /\ mailbox[WaitKey(role)]

\* a request with an attack or a defend of the role is being handled
Submitting(role) ==
    /\ request.pc \notin {"idle", "refuse"}
    /\ request.role = role

----------------------------------------------------------------------------
(* Properties of the writers of the mailbox *)

\* C21 as stated: a wait flag goes up by a step of the round thread only and
\* down by a step of a request handler only, an instruction slot changes by
\* a step of a request handler only, the board snapshot by a step of the
\* round thread only, and the score by one step of the round thread, once,
\* when start() has returned
C21_SingleWriter ==
    [][EntryStays =>
          /\ \A role \in Roles :
                /\ (~mailbox[WaitKey(role)] /\ mailbox'[WaitKey(role)] => ByRound)
                /\ (mailbox[WaitKey(role)] /\ ~mailbox'[WaitKey(role)] => ByHandler)
                /\ (mailbox'[InstructionKey(role)] # mailbox[InstructionKey(role)]
                      => ByHandler)
          /\ (Snapshot' # Snapshot => ByRound)
          /\ (mailbox'.round_score # mailbox.round_score
                => ByRound /\ mailbox.round_score = PyNone /\ round.pc = "returned")
      ]_vars

\* C21 amended: the cleaning thread is a second writer of the flags and of
\* the slots.  A wait flag goes up by a step of the round thread only and
\* down by a step of a request handler or of the cleaning thread, an
\* instruction slot changes by a step of a request handler or of the
\* cleaning thread, the board snapshot by a step of the round thread only,
\* and the score by one step of the round thread, once, when start() has
\* returned
C21_WritersWithSweep ==
    [][EntryStays =>
          /\ \A role \in Roles :
                /\ (~mailbox[WaitKey(role)] /\ mailbox'[WaitKey(role)] => ByRound)
                /\ (mailbox[WaitKey(role)] /\ ~mailbox'[WaitKey(role)]
                      => ByHandler \/ BySweep)
                /\ (mailbox'[InstructionKey(role)] # mailbox[InstructionKey(role)]
                      => ByHandler \/ BySweep)
          /\ (Snapshot' # Snapshot => ByRound)
          /\ (mailbox'.round_score # mailbox.round_score
                => ByRound /\ mailbox.round_score = PyNone /\ round.pc = "returned")
      ]_vars

\* the cleaning thread has put down the flag of a waiting attacker, a
\* request handler that of a waiting defender, and the score is in the entry
C21_Witness ==
    /\ history.forced.attacker
    /\ history.falls.defender = 1
    /\ ~history.forced.defender
    /\ mailbox.round_score # PyNone

----------------------------------------------------------------------------
(* Properties of the cleaning thread *)

\* C22: while the round stands in the wait loop of an Online provider with
\* the flag up, no step moves the round thread, changes the board, begins a
\* query or writes the score; and in a round that no attack and no defend
\* was accepted for, the only step that puts the flag down is the one of the
\* cleaning thread in its branch for the rounds inactive for more than 300
\* seconds, which leaves the surrender in the slot of the role
C22_SuspendedUntilForced ==
    [][\A role \in Roles :
          Blocked(role) =>
             /\ round' = round
             /\ tiles' = tiles
             /\ history'.queries = history.queries
             /\ mailbox'.round_score = mailbox.round_score
             /\ (~history.accepted /\ ~mailbox'[WaitKey(role)]
                   => /\ BySweep
                      /\ sweep.pc = WaitKey(role)
                      /\ mailbox'[InstructionKey(role)] = GiveUpOf(role))
      ]_vars

\* the defender was waited for, no defend came, and the cleaning thread has
\* put the flag down: the round is about to leave its wait loop
C22_Witness ==
    /\ round.pc = "poll"
    /\ round.role = "defender"
    /\ history.queries.defender = 1
    /\ history.forced.defender
    /\ ~history.accepted
    /\ ~mailbox.defender_wait
    /\ mailbox.defender_instruction = GiveUpOf("defender")

\* the round stands in the wait loop of an Online provider, flag up, it was
\* neither displayed nor updated for more than 300 seconds, and no request
\* is being handled
BlockedAndPending ==
    /\ \E role \in Roles : Blocked(role)
    /\ Pending
    /\ request.pc = "idle"

\* the round took the surrender, start() returned, the score is in the entry
ForceEnded ==
    /\ round.pc = "done"
    /\ round.outcome = "giveup"
    /\ \E role \in Roles : history.forced[role]
    /\ mailbox.round_score # PyNone

\* C23: when the threads of the round and of the cleaning get to run, a round
\* that stands in the wait loop of an Online provider and was neither
\* displayed nor updated for more than 300 seconds is ended by the cleaning
\* thread (the round takes the surrender, start() returns and the score is
\* in the entry), unless a request is handled or the round is updated before
C23_EventuallyForceEnded ==
    BlockedAndPending ~> (ForceEnded \/ ~Pending \/ request.pc # "idle")

\* C24: the entry of the round leaves ONLINE_ROUNDS by a step of the cleaning
\* thread only, and at that step the thread of the round has ended and the
\* round was neither displayed nor updated for more than 30 seconds
C24_RemovedOnlyDeadAndOld ==
    [][mailbox.registered /\ ~mailbox'.registered
          => /\ BySweep
             /\ ~Alive(round)
             /\ mailbox.last_visit > DeadRoundSeconds
             /\ mailbox.last_update > DeadRoundSeconds
      ]_vars

\* C25: a step of the cleaning thread leaves the board, the round and the
\* board snapshot as they are: where it ends a round it changes the two wait
\* flags and the two instruction slots and no other field of the entry, and
\* where it deletes a round it removes the entry
C25_SweepFrame ==
    [][BySweep =>
          /\ tiles' = tiles
          /\ shape' = shape
          /\ round' = round
          /\ Snapshot' = Snapshot \/ ~mailbox'.registered
          /\ IF sweep.pc = "delete"
             THEN ~mailbox'.registered
             ELSE mailbox' = [mailbox EXCEPT
                     !.attacker_wait = mailbox'.attacker_wait,
                     !.defender_wait = mailbox'.defender_wait,
                     !.attacker_instruction = mailbox'.attacker_instruction,
                     !.defender_instruction = mailbox'.defender_instruction]
      ]_vars

\* the cleaning thread has ended a round that waited for its defender on a
\* board with a tile, and is back in its sleep
C25_Witness ==
    /\ history.forced.defender
    /\ sweep.pc = "sleep"
    /\ mailbox.board_tiles = BoardRef
    /\ tiles # PyList(<<>>)
    /\ TileSum(tiles) > 0

\* a statement of the branch of the cleaning thread that ends a round
ForceEndWrite ==
    /\ BySweep
    /\ sweep.pc \in {"attacker_instruction", "attacker_wait",
                     "defender_instruction", "defender_wait"}

\* C26: under every interleaving with the request handler and the round
\* thread, whenever the cleaning thread writes to the entry of a round to end
\* it, the round has at that moment been neither displayed nor updated for
\* more than 300 seconds
C26_WritesLandOnInactive ==
    [][ForceEndWrite => Pending]_vars

----------------------------------------------------------------------------
(* Properties of the requests *)

\* the request handler ends a request with an attack or a defend that had
\* passed the test of the wait flag
AcceptedEnds ==
    /\ request.pc \notin {"idle", "refuse"}
    /\ request'.pc = "idle"

\* C27: an attack or a defend for a registered round is accepted exactly
\* when the wait flag of its role is up at the test; a submission that is
\* refused changes no field of the entry; and the handler ends an accepted
\* submission by the statement that puts the flag down, after its writes to
\* the instruction slot
C27_Submissions ==
    [][/\ (request.pc = "idle" /\ request'.pc = "create"
             => mailbox[WaitKey(request'.role)] /\ mailbox' = mailbox)
       /\ (request.pc = "idle" /\ request'.pc = "refuse"
             => ~mailbox[WaitKey(request'.role)] /\ mailbox' = mailbox)
       /\ (request.pc = "refuse" /\ ByHandler => mailbox' = mailbox)
       /\ (AcceptedEnds
             => /\ request.pc = "clear"
                /\ ~mailbox'[WaitKey(request.role)])
      ]_vars

\* a step of a start request: the answer or the entries change, no entry is
\* deleted, and it is no step of a request for an unoccupied game
StartStep ==
    /\ registry' # registry
    /\ Entries' >= Entries
    /\ request' = request

\* C28: ONLINE_ROUNDS never holds more than 500 entries, whatever start
\* requests and passes of the cleaning thread came before; and a start
\* request handled with 500 entries adds no entry, so starts no thread, and
\* answers with uuid None
C28_AdmissionCeiling ==
    [][/\ Entries <= AdmissionCeiling
       /\ Entries' <= AdmissionCeiling
       /\ (Entries = AdmissionCeiling /\ StartStep
             => /\ registry'.filled = registry.filled
                /\ registry'.unfilled = registry.unfilled
                /\ registry'.uuid = "null")
      ]_vars

\* a start request was refused with 500 entries in ONLINE_ROUNDS
C28_Witness ==
    /\ Entries = AdmissionCeiling
    /\ registry.uuid = "null"

----------------------------------------------------------------------------
(* Properties of the score in the entry and of the kinds of the providers *)

\* C29: whenever a display of the entry shows a round_score other than -1
\* with both wait flags down, start() has returned: from then on no step
\* changes the board or raises a wait flag; and round_score is written to
\* the entry once
C29_ScoreMeansEnded ==
    [][/\ (mailbox.registered /\ ShownScore # -1
             /\ ~mailbox.attacker_wait /\ ~mailbox.defender_wait
             => /\ HasReturned(round)
                /\ tiles' = tiles
                /\ (mailbox'.registered
                      => ~mailbox'.attacker_wait /\ ~mailbox'.defender_wait))
       /\ (EntryStays /\ mailbox'.round_score # mailbox.round_score
             => mailbox.round_score = PyNone /\ round.pc = "returned")
      ]_vars

\* the round has ended on a board with a tile and its score is in the entry
C29_Witness ==
    /\ mailbox.registered
    /\ ShownScore # -1
    /\ ~mailbox.attacker_wait
    /\ ~mailbox.defender_wait
    /\ TileSum(tiles) > 0

----------------------------------------------------------------------------
(* Vocabulary of the properties of the providers *)

\* the coordinates of the cells of the board that hold 0
ZeroCells == {c \in AllCoordinates(shape) : get_tile(tiles, c).i = 0}

\* the board exists and the provider of this role and kind is about to think
Thinks(role, kind) ==
    /\ round.pc = "query"
    /\ round.role = role
    /\ round[TypeKey(role)] = kind

\* the provider of this role and kind has decided and its decision was applied
Applied(role, kind) ==
    /\ round.pc = "query"
    /\ round.outcome = "applied"
    /\ round.role = OtherRole(role)
    /\ round[TypeKey(role)] = kind

\* the pairs (axis, direction) whose move would change the board: a line
\* along the axis differs from its reference line
ChangingPairs ==
    {p \in (0..(Len(shape) - 1)) \X {-1, 1} :
        \E c \in LineStarts(shape, p[1] + 1) :
            LET line == LineThrough(tiles, shape, p[1] + 1, c) IN
            ReferenceLine(line, p[2]) # line}

\* the place of a pair in the order (0,-1), ..., (r-1,-1), (r-1,+1), ..., (0,+1)
StrategyRank(p) ==
    IF p[2] = -1 THEN p[1] ELSE 2 * Len(shape) - 1 - p[1]

\* the pair of an answer that keeps going
PairOf(outcome) ==
    <<outcome.value.d.dimension.i, outcome.value.d.direction.i>>

\* think() returned a well-formed move instruction
ReturnedMove(outcome) ==
    /\ outcome.kind = "return"
    /\ get_move_instruction(outcome.value) = ""

\* two cells differ by exactly 1 in exactly one coordinate
Adjacent(a, b) ==
    \E k \in 1..Len(a) :
        /\ AbsDiff(a[k], b[k]) = 1
        /\ \A j \in 1..Len(a) : j # k => a[j] = b[j]

\* the numbers of the tiles that have a zero cell next to them
NumbersNextToZero ==
    {get_tile(tiles, c).i : c \in {a \in AllCoordinates(shape) :
                                      \E z \in ZeroCells : Adjacent(a, z)}}

----------------------------------------------------------------------------
(* Properties of the providers *)

\* C32: on every board, each answer the Random attacker can give keeps going
\* if and only if the board has a cell that holds 0, and then its location is
\* one of these cells and place() succeeds with it, whichever number is drawn
C32_RandomAttacker ==
    Thinks("attacker", "Random")
        => \A outcome \in Random_Attacker_think(tiles) :
              /\ outcome.kind = "return"
              /\ get_place_instruction(outcome.value) = ""
              /\ outcome.value.d.keepgoing.b <=> ZeroCells # {}
              /\ outcome.value.d.keepgoing.b
                    => /\ IntsOf(outcome.value.d.location.l) \in ZeroCells
                       /\ \A r \in 0..9 :
                             BoardPlace(shape, tiles, outcome.value.d.location.l,
                                        PlaceNumber(r)).ret

\* a Random attacker has placed its second tile, on a board that had tiles
C32_Witness ==
    /\ Applied("attacker", "Random")
    /\ history.places = 2
    /\ ZeroCells # {}
    /\ history.start_tiles # tiles

\* C33: on every board, each answer the Random defender can give is a
\* surrender if and only if no pair (axis, direction) would change the board,
\* and otherwise a pair whose move on the board of the Round succeeds; and
\* the board of the Round is the same after think() as before
C33_RandomDefender ==
    Thinks("defender", "Random")
        => /\ \A outcome \in Random_Defender_think(tiles) :
                 /\ ReturnedMove(outcome)
                 /\ ~outcome.value.d.keepgoing.b <=> ChangingPairs = {}
                 /\ outcome.value.d.keepgoing.b
                       => /\ PairOf(outcome) \in ChangingPairs
                          /\ BoardMove(shape, tiles, outcome.value.d.dimension,
                                       outcome.value.d.direction.i).ret
           /\ AfterThink("defender", "Random", tiles) = tiles

\* C34: on every board, the Strategy defender surrenders exactly when no pair
\* changes the board, and otherwise returns the first pair that changes it
\* in the order (0,-1), ..., (r-1,-1), (r-1,+1), ..., (0,+1)
C34_StrategyDefender ==
    Thinks("defender", "Strategy")
        => \A outcome \in Strategy_Defender_think(tiles) :
              /\ ReturnedMove(outcome)
              /\ ~outcome.value.d.keepgoing.b <=> ChangingPairs = {}
              /\ outcome.value.d.keepgoing.b
                    => /\ PairOf(outcome) \in ChangingPairs
                       /\ \A p \in ChangingPairs :
                             StrategyRank(PairOf(outcome)) <= StrategyRank(p)

\* C35: on every board the constructor accepts, the Strategy attacker
\* surrenders if and only if no cell holds 0, and otherwise returns a cell
\* that holds 0 next to a tile of the largest number that has such a cell
\* next to it
C35_StrategyAttacker ==
    Thinks("attacker", "Strategy")
        => \A outcome \in Strategy_Attacker_think(tiles) :
              /\ outcome.kind = "return"
              /\ get_place_instruction(outcome.value) = ""
              /\ ~outcome.value.d.keepgoing.b <=> ZeroCells = {}
              /\ outcome.value.d.keepgoing.b
                    => LET z == IntsOf(outcome.value.d.location.l) IN
                       /\ z \in ZeroCells
                       /\ \E c \in AllCoordinates(shape) :
                             /\ Adjacent(c, z)
                             /\ \A n \in NumbersNextToZero : n <= get_tile(tiles, c).i

\* the tag of each way the pass of the inner loop can go on the board as it is
PassTags ==
    {Decide(round.role, outcome, shape,
            AfterThink(round.role, round[TypeKey(round.role)], tiles), 2).tag :
        outcome \in Think(round.role, round[TypeKey(round.role)], shape, tiles)}

\* every pass of the inner loop ends in continue and leaves the board as it
\* is: the same query is then repeated without end
RetriedForever ==
    /\ round.pc = "query"
    /\ PassTags \subseteq {"raise", "malformed", "rejected"}

\* C36: a Round of two providers that are Random or Strategy, on a shape the
\* constructor accepts, is never at a query that fails and is retried for
\* ever: until it has ended, a pass of its loop can place a tile, move the
\* tiles or end the round
C36_AutoRoundEnds == ~RetriedForever

----------------------------------------------------------------------------
(* Properties of the invitation *)

\* C31: the unoccupied_role of a round is not "" only when both kinds are
\* Online and it is the role the start request named; a page request for
\* the open role clears it; once "" it stays "" for the rest of the round's
\* life; and a request for an unoccupied game answers with the round only
\* while its role is open
C31_Invitation ==
    [][/\ mailbox.unoccupied_role # "" =>
            /\ mailbox.attacker_type = "Online" /\ mailbox.defender_type = "Online"
            /\ mailbox.unoccupied_role = history.asked_role
            /\ mailbox.unoccupied_role \in RoleNames
       /\ mailbox.unoccupied_role = "" => mailbox'.unoccupied_role = ""
       /\ history'.claimed => mailbox'.unoccupied_role = ""
       /\ request.pc = "idle" /\ request'.pc = "unoccupied"
              /\ registry'.unoccupied = "this"
            => mailbox.unoccupied_role # "" /\ ~history.claimed
       /\ request.pc = "idle" /\ request'.pc = "unoccupied"
              /\ mailbox.unoccupied_role = ""
            => registry'.unoccupied = "null"]_vars

\* the round was offered, its open role was taken, and a later request for
\* an unoccupied game is answered without it although the round was just
\* displayed
C31_Witness ==
    /\ history.claimed
    /\ history.asked_role \in RoleNames
    /\ mailbox.registered /\ mailbox.unoccupied_role = ""
    /\ Recent(mailbox.last_visit)
    /\ request.pc = "unoccupied" /\ registry.unoccupied = "null"

----------------------------------------------------------------------------
(* Properties of the entries of ONLINE_ROUNDS *)

\* C37: every entry of ONLINE_ROUNDS holds the fields the cleaning thread
\* and the requests read: no entry is left with the key "thread" alone, the
\* request for an unoccupied game does not fault, and the cleaning thread
\* keeps running
C37_EntriesFilled ==
    /\ registry.unfilled = 0
    /\ registry.unoccupied # "fault"
    /\ sweep.pc # "dead"

----------------------------------------------------------------------------
(* Properties of the published score *)

\* C39: the score a round has published in its entry is not negative, and
\* so never -1, the value the display answers with while there is no score
C39_ScoreNotSentinel ==
    mailbox.round_score = PyNone \/ mailbox.round_score.i >= 0

----------------------------------------------------------------------------
(* The display of a round while its thread moves the tiles *)

\* the boards after each __set_tile of move_tile, in order: for every merge
\* and every slide the target is written first, then the source is cleared
RECURSIVE MoveWrites(_, _, _)
MoveWrites(tl, log, k) ==
    IF k > Len(log) THEN <<>>
    ELSE LET e == log[k]
             number == IF e.kind = "merge" THEN MergedNumber(get_tile(tl, e.to).i)
                       ELSE get_tile(tl, e.from).i
             first == set_tile(tl, e.to, number)
             second == set_tile(first, e.from, 0)
         IN  <<first, second>> \o MoveWrites(second, log, k + 1)

\* the request that displays the round, while deepcopy runs: copied are the
\* tiles copied so far, stable the boards the round had between its calls of
\* place and move since the request began (a record of the run, not program
\* state)
Displaying(pc, copied, stable) ==
    [pc |-> pc, role |-> "attacker", giveup |-> FALSE, args |-> <<>>,
     index |-> 0, query |-> 0, clean |-> TRUE, copied |-> copied, stable |-> stable]

\* the request of a display is being served
DisplayRuns == request.pc \in {"copy", "copied"}

\* the boards the round has had between its calls, with the board b
Noted(b) ==
    IF DisplayRuns THEN [request EXCEPT !.stable = @ \cup {b}] ELSE request

\* one pass of the inner loop of a defender that is not Online, up to the
\* first write of Board.move: the query, the check of the answer, and for a
\* move that changes the board the writes it is going to make
MoveBegin ==
    /\ round.pc = "query"
    /\ round.role = "defender"
    /\ round.defender_type # "Online"
    /\ TotalQueries(history) < QueryBound
    /\ \E outcome \in Think(round.role, round.defender_type, shape, tiles),
          after \in {AfterThink(round.role, round.defender_type, tiles)} :
          LET d == Decide(round.role, outcome, shape, after, 2)
          IN  /\ history' = Answered(Queried(history, round.role), round.role, outcome, d.tag)
              /\ IF d.tag = "applied"
                 THEN round' = [round EXCEPT
                                   !.pc = "move", !.before = after,
                                   !.writes = MoveWrites(after,
                                                 BoardMove(shape, after, outcome.value.d.dimension,
                                                           outcome.value.d.direction.i).log, 1)]
                 ELSE round' = AfterDecision(round, d.tag)
              /\ tiles' = after
    /\ request' = Noted(tiles)
    /\ UNCHANGED <<board_error, shape, last, ncalls, mailbox, sweep, registry>>

\* one __set_tile of Board.move; after the last one move() returns True and
\* the turn passes
MoveWrite ==
    /\ round.pc = "move"
    /\ tiles' = Head(round.writes)
    /\ IF Len(round.writes) = 1
       THEN /\ round' = AfterDecision([round EXCEPT !.writes = <<>>, !.before = PyList(<<>>)],
                                      "applied")
            /\ request' = Noted(tiles')
       ELSE /\ round' = [round EXCEPT !.writes = Tail(@)]
            /\ UNCHANGED request
    /\ UNCHANGED <<board_error, shape, last, ncalls, mailbox, history, sweep, registry>>

\* a request with display: ["last_visit"]=datetime.now(), and deepcopy of
\* ["board_tiles"] begins; the list [] of online_round() is copied at once
DisplayBegin ==
    /\ request.pc = "idle"
    /\ mailbox.registered
    /\ mailbox' = [mailbox EXCEPT !.last_visit = 0]
    /\ request' = IF mailbox.board_tiles = BoardRef
                  THEN Displaying("copy", <<>>,
                                  {IF round.pc = "move" THEN round.before ELSE tiles})
                  ELSE Displaying("copied", Leaves(mailbox.board_tiles), {})
    /\ UNCHANGED <<boardVars, round, sweep, history, registry>>

\* deepcopy copies the next tile of the list of the board, as it is now
DisplayCopy ==
    /\ request.pc = "copy"
    /\ LET k == Len(request.copied) + 1
           copied == Append(request.copied, Leaves(tiles)[k])
           stable == IF round.pc = "move" THEN request.stable
                     ELSE request.stable \cup {tiles}
       IN  request' = Displaying(IF k = Len(Leaves(tiles)) THEN "copied" ELSE "copy",
                                 copied, stable)
    /\ UNCHANGED <<boardVars, round, mailbox, sweep, history, registry>>

\* the rest of the fields is read and the response is sent
DisplayEnd ==
    /\ request.pc = "copied"
    /\ request' = IdleRequest
    /\ UNCHANGED <<boardVars, round, mailbox, sweep, history, registry>>

\* the board_tiles parameters of the start requests of these rounds
SnapshotTilesInputs == {PyList(PyInts(<<2, 0>>)), PyList(PyInts(<<0, 2, 0>>))}

\* a served round with an Online attacker and a Random defender
SnapshotInit ==
    /\ \E board_tiles \in SnapshotTilesInputs :
          round = NewRound("Online", "Random", DefaultShape, board_tiles)
    /\ mailbox = NewMailbox("Online", "Random")
    /\ request = IdleRequest
    /\ sweep = SleepingSweep
    /\ history = NoHistory
    /\ registry = NoRegistry
    /\ board_error = ""
    /\ shape = <<>>
    /\ tiles = PyList(<<>>)
    /\ last = Call("new", PyOther, 0, <<>>, FALSE, PyList(<<>>), <<>>, <<>>, <<>>)
    /\ ncalls = 0

\* the thread of the round, with the moves of the defender write by write,
\* and the requests of the attacker and of the page that displays the round
SnapshotNext ==
    \/ RoundStart
    \/ OnlineThinkBegin \/ OnlineThinkRaise \/ OnlineThinkPoll \/ OnlineThinkEnd
    \/ MoveBegin \/ MoveWrite
    \/ RoundScore \/ RoundPublish
    \/ Submit \/ HandlerRefuse
    \/ HandlerCreate \/ HandlerLocation \/ HandlerAppend \/ HandlerGiveUp \/ HandlerClear
    \/ DisplayBegin \/ DisplayCopy \/ DisplayEnd

SnapshotSpec == SnapshotInit /\ [][SnapshotNext]_vars

----------------------------------------------------------------------------
(* Properties of the displayed board *)

\* C38: the board a display answers with, once the round has stored its
\* board in the entry, is a board the round had between two complete calls
\* of place and move while the request was served: never a board in the
\* middle of a move
C38_SnapshotWhole ==
    request.pc = "copied" /\ request.stable # {}
        => \E b \in request.stable : request.copied = Leaves(b)


====
